---- MODULE Spec2Model ----
(***************************************************************************)
(* Character Details Popup (ST-CharacterPreview), src/index.js.            *)
(*                                                                         *)
(* The model covers the modal controller (openBox / closeBox /             *)
(* handleStartChat), the capture-phase click interception on the host      *)
(* character list with its asynchronous detail fetch, and the parts of     *)
(* the host page these touch: the overlays attached to document.body, the  *)
(* document-level keydown listeners, the right navigation drawer and the   *)
(* bulk-selection marker of the list container.  It also covers the        *)
(* settings object with its per-section configuration, and the section     *)
(* builder (createCharacterBox) with the first-message navigator, which     *)
(* have specifications of their own: SpecBuild and SpecSettings.           *)
(***************************************************************************)
EXTENDS Integers, Sequences, FiniteSets

\* ------------------------------------------------------------------ bounds
\* Number of list clicks that get as far as issuing a detail fetch.
MaxClicks == 2

\* ------------------------------------------------------- host environment
\* The host's `characters` array (script.js); element i of the JS array is
\* Characters[i + 1].  Each entry is the character's avatar file name.
Characters == << "aria.png", "bram.png" >>

\* Values the data-chid attribute of a card can carry, as digit strings.
\* has = FALSE is a card without the attribute (getAttribute gives null).
ChidAttrs ==
    { [has |-> FALSE, val |-> << >>],
      [has |-> TRUE,  val |-> << >>],
      [has |-> TRUE,  val |-> <<0>>],
      [has |-> TRUE,  val |-> <<1>>],
      [has |-> TRUE,  val |-> <<0, 1>>],
      [has |-> TRUE,  val |-> <<7>>] }

\* What the server can answer to POST /api/characters/get.
Responses == { "networkError", "httpError", "okWrapped", "okBare", "okMalformed" }

\* Elements inside an attached overlay that a click can land on, other than
\* the Close and Start Chat buttons and the overlay background itself.
InnerTargets == { "content", "sectionSummary", "leftArrow", "rightArrow" }

Keys == { "Escape", "Enter" }

NoBox == [click |-> 0, chid |-> -1, rec |-> "none", avatar |-> "none"]
NoHandler == 0

\* ------------------------------------------------------------------ state
VARIABLES
    currentBox,        \* index.js:9   overlay the controller holds, or NoBox
    escapeKeyHandler,  \* index.js:10  keydown closure the controller holds
    drawerWasOpen,     \* index.js:11  "true" | "false" | "null"
    bodyChildren,      \* overlays attached to document.body
    keydownListeners,  \* closures registered on document for keydown
    drawerClasses,     \* classList of #right-nav-panel
    iconClasses,       \* classList of #rightNavDrawerIcon
    drawerExists,      \* whether #right-nav-panel is in the page
    iconExists,        \* whether #rightNavDrawerIcon is in the page
    bulkSelect,        \* list container carries class bulk_select
    startup,           \* how far init() has got, and what the host has done for it
    fetches,           \* one entry per issued detail fetch, with what came of it
    starts,            \* invocations of the host selectCharacterById
    unhandled,         \* promise rejections nobody caught
    lastEvent,         \* the event handled by the last step
    extensionSettings, \* index.js:27  the settings object
    powerUser,         \* power_user.extensions[extensionName]
    tabDefaults,       \* index.js:17  the defaultTabConfig object as it is now
    marked,            \* index.js:14  the markdown library: "null" | "loaded" | "throwing"
    characterData,     \* the record handed to createCharacterBox
    body,              \* the sections of the overlay built last (cdp-box__body)
    panelEvent         \* the settings or section-builder step taken last

ctrlVars == << currentBox, escapeKeyHandler, drawerWasOpen, bodyChildren,
               keydownListeners, drawerClasses, iconClasses >>
pageVars == << drawerExists, iconExists, bulkSelect, startup >>
flowVars == << fetches, starts, unhandled >>
appVars == << ctrlVars, pageVars, flowVars, lastEvent >>
settingsVars == << extensionSettings, powerUser, tabDefaults >>
buildVars == << marked, characterData, body >>
panelVars == << settingsVars, buildVars, panelEvent >>
vars == << appVars, panelVars >>

\* ---------------------------------------------------------- conversions
\* Number(str) for a string of decimal digits (index.js:619, 633).
RECURSIVE ToNumber(_)
ToNumber(digits) ==
    IF digits = << >> THEN 0
    ELSE 10 * ToNumber(SubSeq(digits, 1, Len(digits) - 1)) + digits[Len(digits)]

\* String(n) for a non-negative integer (index.js:435).
RECURSIVE ToString(_)
ToString(n) ==
    IF n < 10 THEN << n >> ELSE ToString(n \div 10) \o << n % 10 >>

\* JS truthiness of the attribute value: null and "" are falsy.
AttrTruthy(attr) == attr.has /\ attr.val # << >>

\* characters[n]: the avatar of the local record, or "undefined".
CharacterAt(n) ==
    IF n + 1 \in DOMAIN Characters THEN Characters[n + 1] ELSE "undefined"

Truthy(flag) == flag = "true"

\* ------------------------------------------------------ modal controller
\* The part of the program state closeBox and openBox read and write.
Ctrl ==
    [ currentBox       |-> currentBox,
      escapeKeyHandler |-> escapeKeyHandler,
      drawerWasOpen    |-> drawerWasOpen,
      bodyChildren     |-> bodyChildren,
      keydownListeners |-> keydownListeners,
      drawerClasses    |-> drawerClasses,
      iconClasses      |-> iconClasses ]

SetCtrl(s) ==
    /\ currentBox' = s.currentBox
    /\ escapeKeyHandler' = s.escapeKeyHandler
    /\ drawerWasOpen' = s.drawerWasOpen
    /\ bodyChildren' = s.bodyChildren
    /\ keydownListeners' = s.keydownListeners
    /\ drawerClasses' = s.drawerClasses
    /\ iconClasses' = s.iconClasses

\* closeBox that restores the drawer but forgets to clear drawerWasOpen.
closeBox_KeepsDrawerFlag(s) ==
    LET restore == Truthy(s.drawerWasOpen) /\ drawerExists
                   /\ "closedDrawer" \in s.drawerClasses
    IN [s EXCEPT !.bodyChildren = @ \ {s.currentBox},
                 !.currentBox = NoBox,
                 !.keydownListeners = @ \ {s.escapeKeyHandler},
                 !.escapeKeyHandler = NoHandler,
                 !.drawerClasses = IF restore
                                   THEN (@ \ {"closedDrawer"}) \cup {"openDrawer"}
                                   ELSE @,
                 !.iconClasses = IF restore /\ iconExists
                                 THEN (@ \ {"closedIcon"}) \cup {"openIcon"}
                                 ELSE @]

\* closeBox that clears the flag without putting the drawer classes back.
closeBox_NoRestore(s) ==
    [s EXCEPT !.bodyChildren = @ \ {s.currentBox},
              !.currentBox = NoBox,
              !.keydownListeners = @ \ {s.escapeKeyHandler},
              !.escapeKeyHandler = NoHandler,
              !.drawerWasOpen = IF Truthy(@) THEN "false" ELSE @]

\* closeBox(), index.js:348-375.
closeBox(s) ==
    LET s1 == IF s.currentBox # NoBox
              THEN [s EXCEPT !.bodyChildren = @ \ {s.currentBox},
                             !.currentBox = NoBox]
              ELSE s
        s2 == IF s1.escapeKeyHandler # NoHandler
              THEN [s1 EXCEPT !.keydownListeners = @ \ {s1.escapeKeyHandler},
                              !.escapeKeyHandler = NoHandler]
              ELSE s1
        s3 == IF Truthy(s2.drawerWasOpen)
              THEN LET restore == drawerExists /\ "closedDrawer" \in s2.drawerClasses
                   IN [s2 EXCEPT
                         !.drawerClasses =
                             IF restore
                             THEN (@ \ {"closedDrawer"}) \cup {"openDrawer"}
                             ELSE @,
                         !.iconClasses =
                             IF restore /\ iconExists
                             THEN (@ \ {"closedIcon"}) \cup {"openIcon"}
                             ELSE @,
                         !.drawerWasOpen = "false"]
              ELSE s2
    IN s3

\* openBox without its leading closeBox() call.
openBox_NoClose(s, boxElement, characterId) ==
    LET box == [boxElement EXCEPT !.chid = characterId]
    IN [s EXCEPT !.drawerWasOpen = IF ~drawerExists THEN "null"
                                   ELSE IF "openDrawer" \in s.drawerClasses THEN "true"
                                   ELSE "false",
                 !.currentBox = box,
                 !.bodyChildren = @ \cup {box},
                 !.escapeKeyHandler = box.click,
                 !.keydownListeners = @ \cup {box.click}]

\* openBox(boxElement, characterId), index.js:382-423.  The Start Chat
\* listener it adds binds characterId to the overlay; the escape closure it
\* creates is identified by the click the overlay was built for.
openBox(s, boxElement, characterId) ==
    LET c == closeBox(s)
        box == [boxElement EXCEPT !.chid = characterId]
        wasOpen == IF ~drawerExists THEN "null"
                   ELSE IF "openDrawer" \in c.drawerClasses THEN "true"
                   ELSE "false"
    IN [c EXCEPT !.drawerWasOpen = wasOpen,
                 !.currentBox = box,
                 !.bodyChildren = @ \cup {box},
                 !.escapeKeyHandler = box.click,
                 !.keydownListeners = @ \cup {box.click}]

\* The overlay listener without the event.target === boxElement test.
backgroundClick_AnyTarget(s, target) == closeBox(s)

\* The overlay's own click listener, index.js:399-404.
backgroundClick(s, target) ==
    IF target = "overlay" THEN closeBox(s) ELSE s

\* Whether a click on an inner element bubbles up to the overlay: the
\* greeting arrows stop propagation (index.js:192-206).
Bubbles(target) == target \notin {"leftArrow", "rightArrow"}

\* ------------------------------------------------------------------ text
\* Strings are sequences of one-character strings.  A field of a record is
\* either absent (undefined or null) or a string.
Absent == [has |-> FALSE, str |-> << >>]
Text(str) == [has |-> TRUE, str |-> str]

RECURSIVE TrimLeft(_)
TrimLeft(str) ==
    IF str # << >> /\ Head(str) = " " THEN TrimLeft(Tail(str)) ELSE str

RECURSIVE TrimRight(_)
TrimRight(str) ==
    IF str # << >> /\ str[Len(str)] = " "
    THEN TrimRight(SubSeq(str, 1, Len(str) - 1)) ELSE str

\* String.prototype.trim.
Trim(str) == TrimRight(TrimLeft(str))

\* field ?? fallback (index.js:451-457).
OrDefault(field, fallback) == IF field.has THEN field.str ELSE fallback

NoDescription == << "N", "o", " ", "d", "e", "s", "c", "r", "i", "p", "t", "i", "o", "n", " ", "a", "v", "a", "i", "l", "a", "b", "l", "e", "." >>

\* --------------------------------------------------------------- settings
\* The recognized section kinds, in the key order of defaultTabConfig.
TabIds == << "description", "firstMessage", "scenario", "personality",
             "creatorNotes", "exampleMessages" >>

\* defaultTabConfig, index.js:17-24, as the list of its entries in key order.
defaultTabConfig ==
    << [id |-> "description",     order |-> 0, visible |-> TRUE, expanded |-> TRUE],
       [id |-> "firstMessage",    order |-> 1, visible |-> TRUE, expanded |-> FALSE],
       [id |-> "scenario",        order |-> 2, visible |-> TRUE, expanded |-> FALSE],
       [id |-> "personality",     order |-> 3, visible |-> TRUE, expanded |-> FALSE],
       [id |-> "creatorNotes",    order |-> 4, visible |-> TRUE, expanded |-> FALSE],
       [id |-> "exampleMessages", order |-> 5, visible |-> TRUE, expanded |-> FALSE] >>

\* The hard-coded defaults of extensionSettings, index.js:27-48 (of the
\* scalar settings, the display mode and one dimension are kept).
\* A settings object also records which of these keys it lacks (absent),
\* which it holds as null (nulls), which fields its tabConfig entries lack
\* (absentFields, as << id, field >>), and the other keys it carries (extra).
DefaultSettings ==
    [ useAccordionFirstMessage |-> FALSE,
      boxWidth |-> 80,
      tabConfig |-> defaultTabConfig,
      absent |-> {}, nulls |-> {}, absentFields |-> {}, extra |-> {} ]

\* The defaultTabConfig object on load of the module; shared tells whether
\* extensionSettings.tabConfig is that very object rather than a copy.
FreshDefaults == [entries |-> defaultTabConfig, shared |-> FALSE]

\* What a write to extensionSettings.tabConfig does to defaultTabConfig.
defaultsAfter(defaults, tabConfig) ==
    IF defaults.shared THEN [defaults EXCEPT !.entries = tabConfig] ELSE defaults

\* Object.entries(tabConfig).sort((a, b) => a[1].order - b[1].order): a
\* stable sort, done here by insertion from the left.
RECURSIVE InsertByOrder_Unstable(_, _)
InsertByOrder_Unstable(sorted, e) ==
    IF sorted = << >> THEN << e >>
    ELSE IF sorted[Len(sorted)].order < e.order THEN Append(sorted, e)
    ELSE Append(InsertByOrder_Unstable(SubSeq(sorted, 1, Len(sorted) - 1), e),
                sorted[Len(sorted)])

RECURSIVE InsertByOrder(_, _)
InsertByOrder(sorted, e) ==
    IF sorted = << >> THEN << e >>
    ELSE IF sorted[Len(sorted)].order <= e.order THEN Append(sorted, e)
    ELSE Append(InsertByOrder(SubSeq(sorted, 1, Len(sorted) - 1), e),
                sorted[Len(sorted)])

RECURSIVE SortByOrder(_)
SortByOrder(entries) ==
    IF entries = << >> THEN << >>
    ELSE InsertByOrder(SortByOrder(SubSeq(entries, 1, Len(entries) - 1)),
                       entries[Len(entries)])

\* ---------------------------------------------------------------- reorder
\* sorted.findIndex(([id]) => id === tabId), index.js:770; -1 when absent.
FindIndex(sorted, tabId) ==
    IF \E i \in DOMAIN sorted : sorted[i].id = tabId
    THEN (CHOOSE i \in DOMAIN sorted :
            /\ sorted[i].id = tabId
            /\ \A j \in DOMAIN sorted : sorted[j].id = tabId => i <= j) - 1
    ELSE -1

Up == -1
Down == 1

\* The body of swapTabOrder once `sorted` is computed, index.js:770-782.
swapSorted_NoTemp(tabConfig, sorted, currentIndex, direction) ==
    IF currentIndex + direction < 0 \/ currentIndex + direction >= Len(sorted)
    THEN [tabConfig |-> tabConfig, saved |-> FALSE, threw |-> FALSE]
    ELSE IF currentIndex < 0
    THEN [tabConfig |-> tabConfig, saved |-> FALSE, threw |-> TRUE]
    ELSE [ tabConfig |->
             [ i \in DOMAIN tabConfig |->
                 IF tabConfig[i].id = sorted[currentIndex + 1].id
                 THEN [tabConfig[i] EXCEPT
                         !.order = sorted[currentIndex + direction + 1].order]
                 ELSE tabConfig[i] ],
           saved |-> TRUE, threw |-> FALSE ]

\* swapTabOrder moving the section's own order value by one.
swapSorted_StepsOrder(tabConfig, sorted, currentIndex, direction) ==
    IF currentIndex + direction < 0 \/ currentIndex + direction >= Len(sorted)
    THEN [tabConfig |-> tabConfig, saved |-> FALSE, threw |-> FALSE]
    ELSE IF currentIndex < 0
    THEN [tabConfig |-> tabConfig, saved |-> FALSE, threw |-> TRUE]
    ELSE [ tabConfig |->
             [ i \in DOMAIN tabConfig |->
                 IF tabConfig[i].id = sorted[currentIndex + 1].id
                 THEN [tabConfig[i] EXCEPT !.order = @ + direction]
                 ELSE tabConfig[i] ],
           saved |-> TRUE, threw |-> FALSE ]

\* The body of swapTabOrder once `sorted` and currentIndex are computed,
\* index.js:771-782; targetIndex is currentIndex + direction, and sorted[-1]
\* is undefined when tabId has no entry.
swapSorted(tabConfig, sorted, currentIndex, direction) ==
    IF currentIndex + direction < 0 \/ currentIndex + direction >= Len(sorted)
    THEN [tabConfig |-> tabConfig, saved |-> FALSE, threw |-> FALSE]
    ELSE IF currentIndex < 0
    THEN [tabConfig |-> tabConfig, saved |-> FALSE, threw |-> TRUE]
    ELSE [ tabConfig |->
             [ i \in DOMAIN tabConfig |->
                 IF tabConfig[i].id = sorted[currentIndex + 1].id
                 THEN [tabConfig[i] EXCEPT
                         !.order = sorted[currentIndex + direction + 1].order]
                 ELSE IF tabConfig[i].id = sorted[currentIndex + direction + 1].id
                 THEN [tabConfig[i] EXCEPT !.order = sorted[currentIndex + 1].order]
                 ELSE tabConfig[i] ],
           saved |-> TRUE, threw |-> FALSE ]

findAndSwap(tabConfig, sorted, tabId, direction) ==
    swapSorted(tabConfig, sorted, FindIndex(sorted, tabId), direction)

swapTabOrder_VisibleOnly(tabConfig, tabId, direction) ==
    findAndSwap(tabConfig, SortByOrder(SelectSeq(tabConfig, LAMBDA e : e.visible)),
                tabId, direction)

\* swapTabOrder(tabId, direction), index.js:766-787, on the tabConfig it is
\* given: the tabConfig it leaves, whether it went on to saveSettings, and
\* whether it threw.
swapTabOrder(tabConfig, tabId, direction) ==
    findAndSwap(tabConfig, SortByOrder(tabConfig), tabId, direction)

\* saveSettings(), index.js:675-682: the entry of power_user.extensions.
saveSettings(settings) == [has |-> TRUE, value |-> settings]

\* ------------------------------------------------------------------- load
HasTab(tabConfig, tabId) == \E i \in DOMAIN tabConfig : tabConfig[i].id = tabId

\* Object.assign(extensionSettings, power_user.extensions[extensionName]),
\* index.js:652: every key the source has is copied over the target's.
ObjectAssign(target, source) ==
    [ useAccordionFirstMessage |->
          IF "useAccordionFirstMessage" \in source.absent
          THEN target.useAccordionFirstMessage ELSE source.useAccordionFirstMessage,
      boxWidth |->
          IF "boxWidth" \in source.absent THEN target.boxWidth ELSE source.boxWidth,
      tabConfig |->
          IF "tabConfig" \in source.absent THEN target.tabConfig ELSE source.tabConfig,
      absentFields |->
          IF "tabConfig" \in source.absent
          THEN target.absentFields ELSE source.absentFields,
      absent |-> target.absent \cap source.absent,
      nulls |-> (target.nulls \cap source.absent) \cup source.nulls,
      extra |-> { x \in target.extra : \A y \in source.extra : y.key # x.key }
                    \cup source.extra ]

mergeMissingTabs_None(tabConfig, defaults) == tabConfig

\* The loop of index.js:660-665: a default entry whose key the tabConfig
\* lacks is added, as a copy, after the keys already there.
mergeMissingTabs(tabConfig, defaults) ==
    tabConfig \o SelectSeq(defaults, LAMBDA d : ~HasTab(tabConfig, d.id))

\* What loadSettings makes of the assigned object, index.js:655-666.
ensureTabConfig(assigned, defaults) ==
    IF "tabConfig" \in assigned.nulls
    THEN [assigned EXCEPT !.tabConfig = defaults, !.absentFields = {},
                          !.nulls = @ \ { "tabConfig" }]
    ELSE [assigned EXCEPT !.tabConfig = mergeMissingTabs(@, defaults)]

\* loadSettings(), index.js:650-670: the settings object it leaves. The
\* default entries it takes over are copies (657, 663).
loadSettings(settings, store, defaults) ==
    IF ~store.has THEN settings
    ELSE ensureTabConfig(ObjectAssign(settings, store.value), defaults)

\* ------------------------------------------------- settings panel handlers
\* Each handler gives the settings object it leaves and what
\* power_user.extensions holds afterwards.
toggleVisibility_ResetsExpanded(settings, store, tabId) ==
    LET s == [settings EXCEPT
                !.tabConfig = [ i \in DOMAIN @ |->
                                  IF @[i].id = tabId
                                  THEN [@[i] EXCEPT !.visible = ~@, !.expanded = FALSE]
                                  ELSE @[i] ]]
    IN [settings |-> s, store |-> saveSettings(s)]

\* The visibility button's click listener, index.js:817-822.
toggleVisibility(settings, store, tabId) ==
    LET s == [settings EXCEPT
                !.tabConfig = [ i \in DOMAIN @ |->
                                  IF @[i].id = tabId
                                  THEN [@[i] EXCEPT
                                          !.visible = IF << tabId, "visible" >>
                                                           \in settings.absentFields
                                                      THEN TRUE ELSE ~@]
                                  ELSE @[i] ],
                !.absentFields = @ \ { << tabId, "visible" >> }]
    IN [settings |-> s, store |-> saveSettings(s)]

\* The expanded checkbox's change listener, index.js:833-837.
setExpanded(settings, store, tabId, checked) ==
    LET s == [settings EXCEPT
                !.tabConfig = [ i \in DOMAIN @ |->
                                  IF @[i].id = tabId
                                  THEN [@[i] EXCEPT !.expanded = checked]
                                  ELSE @[i] ],
                !.absentFields = @ \ { << tabId, "expanded" >> }]
    IN [settings |-> s, store |-> saveSettings(s)]

setDisplayMode_NoSave(settings, store, checked) ==
    [ settings |-> [settings EXCEPT !.useAccordionFirstMessage = checked,
                                    !.absent = @ \ { "useAccordionFirstMessage" }],
      store |-> store ]

\* #cdp-accordion-first-message change listener, index.js:1043-1047.
setDisplayMode(settings, store, checked) ==
    LET s == [settings EXCEPT !.useAccordionFirstMessage = checked,
                              !.absent = @ \ { "useAccordionFirstMessage" }]
    IN [settings |-> s, store |-> saveSettings(s)]

\* #cdp-box-width input listener, index.js:924-929; the other sliders,
\* colour pickers and theme checkboxes have the same shape.
setBoxWidth(settings, store, value) ==
    LET s == [settings EXCEPT !.boxWidth = value, !.absent = @ \ { "boxWidth" }]
    IN [settings |-> s, store |-> saveSettings(s)]

resetSettings_SharesDefaults(defaults) ==
    LET s == [DefaultSettings EXCEPT !.tabConfig = defaults.entries]
    IN [settings |-> s, store |-> saveSettings(s), shared |-> TRUE]

\* resetSettings(), index.js:722-749: a new object literal whose tabConfig
\* is JSON.parse(JSON.stringify(defaultTabConfig)), then saveSettings();
\* `shared` tells whether the new tabConfig is defaultTabConfig itself.
resetSettings(defaults) ==
    LET s == [DefaultSettings EXCEPT !.tabConfig = defaults.entries]
    IN [settings |-> s, store |-> saveSettings(s), shared |-> FALSE]

\* renderTabConfigUI, index.js:839-855: the move buttons that are enabled.
RowEnabled(rows, index, direction) ==
    /\ index >= 0
    /\ direction = Up => index # 0
    /\ direction = Down => index # rows - 1

MoveEnabled(tabConfig, tabId, direction) ==
    RowEnabled(Len(tabConfig), FindIndex(SortByOrder(tabConfig), tabId), direction)

\* -------------------------------------------------------- section builder
renderMarkdown_EmptyOnError(text) ==
    IF text = << >> THEN [html |-> FALSE, markdown |-> FALSE, text |-> << >>]
    ELSE IF marked = "loaded" THEN [html |-> TRUE, markdown |-> TRUE, text |-> text]
    ELSE IF marked = "throwing" THEN [html |-> TRUE, markdown |-> FALSE, text |-> << >>]
    ELSE [html |-> TRUE, markdown |-> FALSE, text |-> text]

\* renderMarkdown(text), index.js:98-111.  What ends up in innerHTML: the
\* library's output for the text, or the text itself.
renderMarkdown(text) ==
    IF text = << >> THEN [html |-> FALSE, markdown |-> FALSE, text |-> << >>]
    ELSE IF marked = "loaded" THEN [html |-> TRUE, markdown |-> TRUE, text |-> text]
    ELSE [html |-> TRUE, markdown |-> FALSE, text |-> text]

\* textP.textContent = content, index.js:286-288.
plainText(text) == [html |-> FALSE, markdown |-> FALSE, text |-> text]

\* The text of a first-message header: `First Message` or `First Message (i/n)`.
Title(label, i, n) == [label |-> label, counter |-> << i, n >>]
PlainTitle(label) == [label |-> label, counter |-> << >>]

RECURSIVE TrimmedAlternates_Untrimmed(_)
TrimmedAlternates_Untrimmed(alternates) ==
    IF alternates = << >> THEN << >>
    ELSE LET alt == Head(alternates)
             rest == TrimmedAlternates_Untrimmed(Tail(alternates))
         IN IF alt.has /\ alt.str # << >> /\ Trim(alt.str) # << >>
            THEN << alt.str >> \o rest
            ELSE rest

\* getAllFirstMessages(data), index.js:118-135.
RECURSIVE TrimmedAlternates(_)
TrimmedAlternates(alternates) ==
    IF alternates = << >> THEN << >>
    ELSE LET alt == Head(alternates)
             rest == TrimmedAlternates(Tail(alternates))
         IN IF alt.has /\ alt.str # << >> /\ Trim(alt.str) # << >>
            THEN << Trim(alt.str) >> \o rest
            ELSE rest

getAllFirstMessages(data) ==
    LET firstMes == IF data.first_mes.has THEN Trim(data.first_mes.str) ELSE << >>
        alternates == IF data.alternate_greetings.has
                      THEN data.alternate_greetings.list ELSE << >>
    IN (IF firstMes # << >> THEN << firstMes >> ELSE << >>)
           \o TrimmedAlternates(alternates)

\* A <details> element of the body.  nav, index, messages and the two
\* disabled flags are the swipe navigator's closure state and arrow classes.
Section(kind, title, open, content) ==
    [ kind |-> kind, title |-> title, open |-> open, content |-> content,
      nav |-> FALSE, index |-> 0, messages |-> << >>,
      leftDisabled |-> FALSE, rightDisabled |-> FALSE ]

\* currentIndex of the swipe section of a body, 0 where it has none.
NavIndex(sections) ==
    IF \E p \in DOMAIN sections : sections[p].nav
    THEN sections[CHOOSE p \in DOMAIN sections : sections[p].nav].index
    ELSE 0

createSwipeFirstMessageSection_KeepsIndex(messages, expanded) ==
    IF Len(messages) > 1
    THEN LET k == IF NavIndex(body) < Len(messages) THEN NavIndex(body) ELSE 0
         IN [ Section("firstMessage", Title("First Message", k + 1, Len(messages)),
                      expanded, renderMarkdown(messages[k + 1]))
                EXCEPT !.nav = TRUE, !.messages = messages, !.index = k,
                       !.leftDisabled = (k = 0),
                       !.rightDisabled = (k = Len(messages) - 1) ]
    ELSE Section("firstMessage", PlainTitle("First Message"), expanded,
                 renderMarkdown(messages[1]))

createSwipeFirstMessageSection_NoCounter(messages, expanded) ==
    IF Len(messages) > 1
    THEN [ Section("firstMessage", PlainTitle("First Message"),
                   expanded, renderMarkdown(messages[1]))
             EXCEPT !.nav = TRUE, !.messages = messages, !.leftDisabled = TRUE ]
    ELSE Section("firstMessage", PlainTitle("First Message"), expanded,
                 renderMarkdown(messages[1]))

\* createSwipeFirstMessageSection(messages, expanded), index.js:143-223.
createSwipeFirstMessageSection(messages, expanded) ==
    IF Len(messages) > 1
    THEN [ Section("firstMessage", Title("First Message", 1, Len(messages)),
                   expanded, renderMarkdown(messages[1]))
             EXCEPT !.nav = TRUE, !.messages = messages, !.leftDisabled = TRUE ]
    ELSE Section("firstMessage", PlainTitle("First Message"), expanded,
                 renderMarkdown(messages[1]))

\* updateDisplay(), index.js:183-190.
updateDisplay(sec) ==
    [sec EXCEPT
       !.content = renderMarkdown(sec.messages[sec.index + 1]),
       !.title = Title("First Message", sec.index + 1, Len(sec.messages)),
       !.leftDisabled = (sec.index = 0),
       !.rightDisabled = (sec.index = Len(sec.messages) - 1)]

leftArrowClick_TogglesSection(sec) ==
    IF sec.index > 0
    THEN updateDisplay([sec EXCEPT !.index = @ - 1, !.open = ~@])
    ELSE [sec EXCEPT !.open = ~@]

\* The click listener of the previous arrow, index.js:192-198.
leftArrowClick(sec) ==
    IF sec.index > 0 THEN updateDisplay([sec EXCEPT !.index = @ - 1]) ELSE sec

rightArrowClick_Wraps(sec) ==
    IF sec.index < Len(sec.messages) - 1
    THEN updateDisplay([sec EXCEPT !.index = @ + 1])
    ELSE updateDisplay([sec EXCEPT !.index = 0])

\* The click listener of the next arrow, index.js:200-206.
rightArrowClick(sec) ==
    IF sec.index < Len(sec.messages) - 1
    THEN updateDisplay([sec EXCEPT !.index = @ + 1]) ELSE sec

createAccordionFirstMessageSection_AlwaysCounter(messages, expanded) ==
    [ index \in 1..Len(messages) |->
        Section("firstMessage", Title("First Message", index, Len(messages)),
                index = 1 /\ expanded, renderMarkdown(messages[index])) ]

createAccordionFirstMessageSection_AllOpen(messages, expanded) ==
    [ index \in 1..Len(messages) |->
        Section("firstMessage",
                IF Len(messages) > 1
                THEN Title("First Message", index, Len(messages))
                ELSE PlainTitle("First Message"),
                expanded,
                renderMarkdown(messages[index])) ]

\* createAccordionFirstMessageSection(messages, expanded), index.js:231-261:
\* the fragment's <details> elements in order.
createAccordionFirstMessageSection(messages, expanded) ==
    [ index \in 1..Len(messages) |->
        Section("firstMessage",
                IF Len(messages) > 1
                THEN Title("First Message", index, Len(messages))
                ELSE PlainTitle("First Message"),
                index = 1 /\ expanded,
                renderMarkdown(messages[index])) ]

createCollapsibleSection_Open(kind, label, content, expanded, useMarkdown) ==
    Section(kind, PlainTitle(label), TRUE,
            IF useMarkdown THEN renderMarkdown(content) ELSE plainText(content))

\* createCollapsibleSection(label, content, expanded, useMarkdown),
\* index.js:271-295.
createCollapsibleSection(kind, label, content, expanded, useMarkdown) ==
    Section(kind, PlainTitle(label), expanded,
            IF useMarkdown THEN renderMarkdown(content) ELSE plainText(content))

\* createFirstMessageSection(data, expanded), index.js:303-318: the elements
\* it contributes to the body (none for null).
createFirstMessageSection(data, expanded) ==
    LET messages == getAllFirstMessages(data)
    IN IF Len(messages) = 0 THEN << >>
       ELSE IF extensionSettings.useAccordionFirstMessage
       THEN createAccordionFirstMessageSection(messages, expanded)
       ELSE << createSwipeFirstMessageSection(messages, expanded) >>

\* tabDefinitions, index.js:496-527.
KnownTab(tabId) == \E i \in DOMAIN TabIds : TabIds[i] = tabId

TabLabel(tabId) ==
    CASE tabId = "description" -> "Description"
      [] tabId = "scenario" -> "Scenario"
      [] tabId = "personality" -> "Personality"
      [] tabId = "creatorNotes" -> "Creator Notes"
      [] tabId = "exampleMessages" -> "Example Messages"
      [] OTHER -> "First Message"

TabUsesMarkdown_All(tabId) == TRUE

TabUsesMarkdown(tabId) == tabId = "description"

TabContent_NoPlaceholder(data, tabId) ==
    CASE tabId = "description" -> OrDefault(data.description, << >>)
      [] tabId = "scenario" -> OrDefault(data.scenario, << >>)
      [] tabId = "personality" -> OrDefault(data.personality, << >>)
      [] tabId = "creatorNotes" -> OrDefault(data.creator_notes, << >>)
      [] OTHER -> OrDefault(data.mes_example, << >>)

\* The getContent closures over the constants of index.js:451-457.
TabContent(data, tabId) ==
    CASE tabId = "description" -> OrDefault(data.description, NoDescription)
      [] tabId = "scenario" -> OrDefault(data.scenario, << >>)
      [] tabId = "personality" -> OrDefault(data.personality, << >>)
      [] tabId = "creatorNotes" -> OrDefault(data.creator_notes, << >>)
      [] OTHER -> OrDefault(data.mes_example, << >>)

\* .filter(([, cfg]) => cfg.visible), index.js:531.
VisibleEntries(entries) == SelectSeq(entries, LAMBDA e : e.visible)

\* Object.entries(tabConfig).filter(...).sort(...), index.js:530-532.
sortedTabs(tabConfig) == SortByOrder(VisibleEntries(tabConfig))

tabSections_NoBlankCheck(data, cfg) ==
    IF ~KnownTab(cfg.id) THEN << >>
    ELSE IF cfg.id = "firstMessage"
    THEN createFirstMessageSection(data, cfg.expanded)
    ELSE LET content == TabContent(data, cfg.id)
         IN IF content # << >>
            THEN << createCollapsibleSection(cfg.id, TabLabel(cfg.id), Trim(content),
                                             cfg.expanded, TabUsesMarkdown(cfg.id)) >>
            ELSE << >>

\* One turn of the loop of index.js:536-557: the elements tab cfg adds.
tabSections(data, cfg) ==
    IF ~KnownTab(cfg.id) THEN << >>
    ELSE IF cfg.id = "firstMessage"
    THEN createFirstMessageSection(data, cfg.expanded)
    ELSE LET content == TabContent(data, cfg.id)
         IN IF content # << >> /\ Trim(content) # << >>
            THEN << createCollapsibleSection(cfg.id, TabLabel(cfg.id), Trim(content),
                                             cfg.expanded, TabUsesMarkdown(cfg.id)) >>
            ELSE << >>

RECURSIVE buildTabs(_, _)
buildTabs(data, tabs) ==
    IF tabs = << >> THEN << >>
    ELSE tabSections(data, Head(tabs)) \o buildTabs(data, Tail(tabs))

\* createCharacterBox(characterData, localAvatar), index.js:448-557: the
\* children of cdp-box__body.  data is characterData.data when the record
\* is wrapped, the record itself otherwise; both carry the same fields here.
createCharacterBoxBody(record) ==
    buildTabs(record, sortedTabs(extensionSettings.tabConfig))

\* ------------------------------------------------------------ events
\* What the last step was: the event, what its handler did to it, the
\* overlay the controller held before it, and whether the controller state
\* changed.  (Used in actions, after the step's controller state is set.)
Event(op, k) ==
    [ op |-> op, k |-> k, card |-> FALSE, hasId |-> FALSE, shift |-> FALSE,
      prevented |-> FALSE, stopped |-> FALSE, fetched |-> FALSE, logged |-> FALSE,
      result |-> "none", prevBox |-> currentBox.click, changed |-> Ctrl' # Ctrl,
      restored |-> drawerClasses' # drawerClasses ]

\* The settings panel and the section builder before they have done anything.
NoSection == Section("none", PlainTitle("none"), FALSE, plainText(<< >>))

NoRecord ==
    [ name |-> Absent, description |-> Absent, creator_notes |-> Absent,
      scenario |-> Absent, personality |-> Absent, mes_example |-> Absent,
      first_mes |-> Absent, alternate_greetings |-> [has |-> FALSE, list |-> << >>] ]

PanelEvent(op) ==
    [ op |-> op, pos |-> 0, section |-> NoSection,
      id |-> "none", direction |-> 0, config |-> << >>,
      roundTrip |-> FALSE, origin |-> << >>, checked |-> FALSE,
      priorIndex |-> 0, prev |-> "idle", fromDefaults |-> TRUE,
      step |-> 0, before |-> << >> ]

PanelIdle ==
    /\ extensionSettings = DefaultSettings
    /\ powerUser = [has |-> FALSE, value |-> DefaultSettings]
    /\ tabDefaults = FreshDefaults
    /\ marked = "loaded"
    /\ characterData = NoRecord
    /\ body = << >>
    /\ panelEvent = PanelEvent("idle")

\* ---------------------------------------------------------------- startup
\* init() has run to its end: the library is settled, APP_READY has been
\* delivered and the click listener is on the list container.
Started ==
    [ phase |-> "done", registered |-> TRUE, ready |-> TRUE, delivered |-> TRUE,
      listening |-> TRUE, container |-> TRUE, autoFire |-> FALSE ]

\* loadMarkedLibrary(), index.js:61-91: the value of `marked` it leaves.
\* A script that fails to load is caught and leaves it as it was.
loadMarkedLibrary(library, outcome) ==
    IF library # "null" THEN library
    ELSE IF outcome = "error" THEN "null"
    ELSE IF outcome = "ok" THEN "loaded"
    ELSE "throwing"

\* setupCharacterClickInterception(), index.js:586-642: the listener is
\* added when the list container is found.
setupCharacterClickInterception(st) ==
    [st EXCEPT !.delivered = TRUE, !.listening = st.container, !.phase = "done"]

\* init() that lets a failed library load end it.
init_Fatal(st, library) ==
    IF library = "null" THEN [st EXCEPT !.phase = "failed"]
    ELSE LET on == [st EXCEPT !.phase = "waiting", !.registered = TRUE]
         IN IF st.ready /\ st.autoFire THEN setupCharacterClickInterception(on) ELSE on

\* init() after `await loadMarkedLibrary()`, index.js:1065-1070: the
\* APP_READY handler is registered whatever the library came to; a host
\* that replays APP_READY to late handlers runs it at once.
init(st, library) ==
    LET on == [st EXCEPT !.phase = "waiting", !.registered = TRUE]
    IN IF st.ready /\ st.autoFire THEN setupCharacterClickInterception(on) ELSE on

PageInit ==
    /\ currentBox = NoBox
    /\ escapeKeyHandler = NoHandler
    /\ drawerWasOpen = "false"
    /\ bodyChildren = {}
    /\ keydownListeners = {}
    /\ drawerExists \in BOOLEAN
    /\ iconExists = drawerExists
    /\ drawerClasses \in (IF drawerExists
                          THEN { {"openDrawer"}, {"closedDrawer"} } ELSE { {} })
    /\ iconClasses = IF ~iconExists THEN {}
                     ELSE IF "openDrawer" \in drawerClasses
                     THEN {"openIcon"} ELSE {"closedIcon"}
    /\ bulkSelect = FALSE
    /\ fetches = << >>
    /\ starts = << >>
    /\ unhandled = {}
    /\ lastEvent = [ op |-> "init", k |-> 0, card |-> FALSE, hasId |-> FALSE,
                     shift |-> FALSE, prevented |-> FALSE, stopped |-> FALSE,
                     fetched |-> FALSE, logged |-> FALSE, result |-> "none",
                     prevBox |-> 0, changed |-> FALSE, restored |-> FALSE ]

AppInit == PageInit /\ startup = Started

Init == AppInit /\ PanelIdle

\* ------------------------------------------------------------ host data
\* Number of non-empty greetings of the record the server holds for an
\* avatar; the greeting arrows exist only for more than one (index.js:154).
GreetingCount(avatar) == IF avatar = "aria.png" THEN 2 ELSE 1

HasGreetingNav(box) == GreetingCount(box.rec) > 1

\* ------------------------------------------------- click interception
\* The listener as in the first version of the extension: no SHIFT bypass,
\* and the event is consumed as soon as a card is hit.
clickDecision_NoShiftBypass(bulk, card, attr, shift) ==
    IF bulk THEN
        [outcome |-> "bulk", prevented |-> FALSE, stopped |-> FALSE]
    ELSE IF ~card THEN
        [outcome |-> "noCard", prevented |-> FALSE, stopped |-> FALSE]
    ELSE IF ~AttrTruthy(attr) THEN
        [outcome |-> "noId", prevented |-> TRUE, stopped |-> TRUE]
    ELSE IF CharacterAt(ToNumber(attr.val)) = "undefined" THEN
        [outcome |-> "notFound", prevented |-> TRUE, stopped |-> TRUE]
    ELSE
        [outcome |-> "fetch", prevented |-> TRUE, stopped |-> TRUE]

\* The listener without the `if (!character) return` test: a click whose
\* identifier resolves to nothing goes on to the fetch.
clickDecision_NoLookupCheck(bulk, card, attr, shift) ==
    IF bulk THEN
        [outcome |-> "bulk", prevented |-> FALSE, stopped |-> FALSE]
    ELSE IF ~card THEN
        [outcome |-> "noCard", prevented |-> FALSE, stopped |-> FALSE]
    ELSE IF ~AttrTruthy(attr) THEN
        [outcome |-> "noId", prevented |-> FALSE, stopped |-> FALSE]
    ELSE IF shift THEN
        [outcome |-> "shift", prevented |-> FALSE, stopped |-> FALSE]
    ELSE
        [outcome |-> "fetch", prevented |-> TRUE, stopped |-> TRUE]

\* The listener without the bulk_select test.
clickDecision_NoBulkCheck(bulk, card, attr, shift) ==
    IF ~card THEN
        [outcome |-> "noCard", prevented |-> FALSE, stopped |-> FALSE]
    ELSE IF ~AttrTruthy(attr) THEN
        [outcome |-> "noId", prevented |-> FALSE, stopped |-> FALSE]
    ELSE IF shift THEN
        [outcome |-> "shift", prevented |-> FALSE, stopped |-> FALSE]
    ELSE IF CharacterAt(ToNumber(attr.val)) = "undefined" THEN
        [outcome |-> "notFound", prevented |-> TRUE, stopped |-> TRUE]
    ELSE
        [outcome |-> "fetch", prevented |-> TRUE, stopped |-> TRUE]

\* The listener calling preventDefault() only.
clickDecision_NoStopPropagation(bulk, card, attr, shift) ==
    IF bulk THEN
        [outcome |-> "bulk", prevented |-> FALSE, stopped |-> FALSE]
    ELSE IF ~card THEN
        [outcome |-> "noCard", prevented |-> FALSE, stopped |-> FALSE]
    ELSE IF ~AttrTruthy(attr) THEN
        [outcome |-> "noId", prevented |-> FALSE, stopped |-> FALSE]
    ELSE IF shift THEN
        [outcome |-> "shift", prevented |-> FALSE, stopped |-> FALSE]
    ELSE IF CharacterAt(ToNumber(attr.val)) = "undefined" THEN
        [outcome |-> "notFound", prevented |-> TRUE, stopped |-> FALSE]
    ELSE
        [outcome |-> "fetch", prevented |-> TRUE, stopped |-> FALSE]

\* The synchronous part of the list container's capture-phase click
\* listener, index.js:595-624: what it does to the event and whether it
\* goes on to fetch.
clickDecision(bulk, card, attr, shift) ==
    IF bulk THEN
        [outcome |-> "bulk", prevented |-> FALSE, stopped |-> FALSE]
    ELSE IF ~card THEN
        [outcome |-> "noCard", prevented |-> FALSE, stopped |-> FALSE]
    ELSE IF ~AttrTruthy(attr) THEN
        [outcome |-> "noId", prevented |-> FALSE, stopped |-> FALSE]
    ELSE IF shift THEN
        [outcome |-> "shift", prevented |-> FALSE, stopped |-> FALSE]
    ELSE IF CharacterAt(ToNumber(attr.val)) = "undefined" THEN
        [outcome |-> "notFound", prevented |-> TRUE, stopped |-> TRUE]
    ELSE
        [outcome |-> "fetch", prevented |-> TRUE, stopped |-> TRUE]

\* fetchCharacterData without the response.ok test: the body of an error
\* response is handed on as if it were the record.
fetchCharacterData_NoStatusCheck(resp, avatarUrl) ==
    IF resp = "networkError"
    THEN [threw |-> TRUE, rec |-> "none", wellFormed |-> FALSE]
    ELSE [threw |-> FALSE, rec |-> avatarUrl, wellFormed |-> resp # "okMalformed"]

\* fetchCharacterData(avatarUrl), index.js:325-343: throws on a transport
\* error and on a non-success status, otherwise gives data.character || data.
fetchCharacterData(resp, avatarUrl) ==
    IF resp \in {"networkError", "httpError"}
    THEN [threw |-> TRUE, rec |-> "none", wellFormed |-> FALSE]
    ELSE [threw |-> FALSE, rec |-> avatarUrl, wellFormed |-> resp # "okMalformed"]

\* How a response counts for the click that asked for it: a rejected
\* fetch, a record the section builder chokes on, or a usable record.
ResponseClass(resp) ==
    IF resp \in {"networkError", "httpError"} THEN "rejected"
    ELSE IF resp = "okMalformed" THEN "malformed"
    ELSE "ok"

\* createCharacterBox(characterData, localAvatar), index.js:448-582, as far
\* as the controller is concerned: a fresh overlay for this click, or an
\* exception when a text field of the record is not a string.  No Start
\* Chat listener is bound yet (chid -1).
createCharacterBox(data, localAvatar, k) ==
    IF data.wellFormed
    THEN [threw |-> FALSE,
          box |-> [click |-> k, chid |-> -1, rec |-> data.rec, avatar |-> localAvatar]]
    ELSE [threw |-> TRUE, box |-> NoBox]

\* The continuation handing openBox the identifier of the newest click.
onFetchSettled_LastClickedId(s, f, k, resp) ==
    LET data == fetchCharacterData(resp, f.avatar)
        made == IF data.threw THEN [threw |-> TRUE, box |-> NoBox]
                ELSE createCharacterBox(data, f.avatar, k)
    IN IF made.threw
       THEN [ctrl |-> s, opened |-> FALSE, alerted |-> TRUE]
       ELSE [ctrl |-> openBox(s, made.box, fetches[Len(fetches)].chid),
             opened |-> TRUE, alerted |-> FALSE]

\* The continuation that discards the result of any click but the newest.
onFetchSettled_OnlyNewest(s, f, k, resp) ==
    LET data == fetchCharacterData(resp, f.avatar)
        made == IF data.threw THEN [threw |-> TRUE, box |-> NoBox]
                ELSE createCharacterBox(data, f.avatar, k)
    IN IF made.threw
       THEN [ctrl |-> s, opened |-> FALSE, alerted |-> TRUE]
       ELSE IF k # Len(fetches)
       THEN [ctrl |-> s, opened |-> FALSE, alerted |-> FALSE]
       ELSE [ctrl |-> openBox(s, made.box, f.chid), opened |-> TRUE, alerted |-> FALSE]

\* The continuation whose catch closes the modal before the notice.
onFetchSettled_ClosesOnFailure(s, f, k, resp) ==
    LET data == fetchCharacterData(resp, f.avatar)
        made == IF data.threw THEN [threw |-> TRUE, box |-> NoBox]
                ELSE createCharacterBox(data, f.avatar, k)
    IN IF made.threw
       THEN [ctrl |-> closeBox(s), opened |-> FALSE, alerted |-> TRUE]
       ELSE [ctrl |-> openBox(s, made.box, f.chid), opened |-> TRUE, alerted |-> FALSE]

\* The continuation that gives up when a modal is already open.
onFetchSettled_DropsWhenOpen(s, f, k, resp) ==
    LET data == fetchCharacterData(resp, f.avatar)
        made == IF data.threw THEN [threw |-> TRUE, box |-> NoBox]
                ELSE createCharacterBox(data, f.avatar, k)
    IN IF made.threw
       THEN [ctrl |-> s, opened |-> FALSE, alerted |-> TRUE]
       ELSE IF s.currentBox # NoBox
       THEN [ctrl |-> s, opened |-> FALSE, alerted |-> FALSE]
       ELSE [ctrl |-> openBox(s, made.box, f.chid), opened |-> TRUE, alerted |-> FALSE]

\* The continuation of the click listener after the await, index.js:626-637.
onFetchSettled(s, f, k, resp) ==
    LET data == fetchCharacterData(resp, f.avatar)
        made == IF data.threw THEN [threw |-> TRUE, box |-> NoBox]
                ELSE createCharacterBox(data, f.avatar, k)
    IN IF made.threw
       THEN [ctrl |-> s, opened |-> FALSE, alerted |-> TRUE]
       ELSE [ctrl |-> openBox(s, made.box, f.chid), opened |-> TRUE, alerted |-> FALSE]

\* handleStartChat that invokes the host action before closing.
handleStartChat_InvokeFirst(s, characterId) ==
    [ctrl |-> closeBox(s),
     arg |-> ToString(characterId),
     boxOpenAtCall |-> s.currentBox # NoBox]

\* handleStartChat(characterId), index.js:429-435: closes, then invokes the
\* host action; the call records whether an overlay was still held.
handleStartChat(s, characterId) ==
    LET c == closeBox(s)
    IN [ctrl |-> c,
        arg |-> ToString(characterId),
        boxOpenAtCall |-> c.currentBox # NoBox]

\* handleStartChat without the try/catch around the await.
startChatSettled_NoCatch(outcome) ==
    [logged |-> FALSE, escaped |-> outcome = "reject"]

\* The try/catch around the awaited host action, index.js:434-439.
startChatSettled(outcome) ==
    [logged |-> outcome = "reject", escaped |-> FALSE]

\* The keydown closure testing the legacy key name.
escapeKeyHandlerFn_LegacyKey(s, key) ==
    IF key = "Esc" THEN closeBox(s) ELSE s

\* The closure registered for keydown, index.js:406-411.
escapeKeyHandlerFn(s, key) ==
    IF key = "Escape" THEN closeBox(s) ELSE s

\* ------------------------------------------------------------ actions
\* A click somewhere in the character list.  A click the listener lets
\* through before it reads the id's digits (bulk mode, SHIFT) is taken with
\* one id, since Number(characterId) is not computed for it.
ListClick ==
    \E card \in BOOLEAN, attr \in ChidAttrs, shift \in BOOLEAN :
        \E d \in { clickDecision(bulkSelect, card, attr, shift) } :
           /\ startup.listening
           /\ card \/ ~attr.has
           /\ d.outcome \in {"bulk", "shift"} => Len(attr.val) = 0 \/ attr.val = <<0>>
           /\ d.outcome = "fetch" => Len(fetches) < MaxClicks
           /\ fetches' = IF d.outcome = "fetch"
                         THEN LET n == ToNumber(attr.val)
                              IN Append(fetches, [chid |-> n, avatar |-> CharacterAt(n),
                                                  settled |-> FALSE, opens |-> 0,
                                                  alerts |-> 0])
                         ELSE fetches
           /\ UNCHANGED << ctrlVars, pageVars, starts, unhandled >>
           /\ UNCHANGED panelVars
           /\ lastEvent' = [ op |-> "listClick", k |-> 0, card |-> card,
                             hasId |-> card /\ AttrTruthy(attr), shift |-> shift,
                             prevented |-> d.prevented, stopped |-> d.stopped,
                             fetched |-> d.outcome = "fetch",
                             logged |-> d.outcome = "notFound", result |-> "none",
                             prevBox |-> currentBox.click, changed |-> FALSE,
                             restored |-> FALSE ]

\* The detail fetch of click k settles with response resp.
FetchSettle ==
    \E k \in DOMAIN fetches, resp \in Responses :
        LET r == onFetchSettled(Ctrl, fetches[k], k, resp)
        IN /\ ~fetches[k].settled
           /\ SetCtrl(r.ctrl)
           /\ fetches' = [fetches EXCEPT
                            ![k].settled = TRUE,
                            ![k].opens = @ + (IF r.opened THEN 1 ELSE 0),
                            ![k].alerts = @ + (IF r.alerted THEN 1 ELSE 0)]
           /\ UNCHANGED << pageVars, starts, unhandled >>
           /\ UNCHANGED panelVars
           /\ lastEvent' = [Event("fetchSettle", k) EXCEPT
                              !.logged = r.alerted,
                              !.result = ResponseClass(resp)]

\* The user activates the Close button of an attached overlay.
ClickClose ==
    \E b \in bodyChildren :
        /\ SetCtrl(closeBox(Ctrl))
        /\ UNCHANGED << pageVars, flowVars >>
        /\ UNCHANGED panelVars
        /\ lastEvent' = Event("closeButton", 0)

\* The user clicks the overlay background itself.
ClickBackground ==
    \E b \in bodyChildren :
        /\ SetCtrl(backgroundClick(Ctrl, "overlay"))
        /\ UNCHANGED << pageVars, flowVars >>
        /\ UNCHANGED panelVars
        /\ lastEvent' = Event("background", 0)

\* The user clicks an element inside the overlay's content.
ClickInside ==
    \E b \in bodyChildren, t \in InnerTargets :
        /\ t \in {"leftArrow", "rightArrow"} => HasGreetingNav(b)
        /\ SetCtrl(IF Bubbles(t) THEN backgroundClick(Ctrl, t) ELSE Ctrl)
        /\ UNCHANGED << pageVars, flowVars >>
        /\ UNCHANGED panelVars
        /\ lastEvent' = Event(t, 0)

\* The user presses a key anywhere in the document.
KeyDown ==
    \E key \in Keys :
        /\ SetCtrl(IF keydownListeners = {} THEN Ctrl
                   ELSE escapeKeyHandlerFn(Ctrl, key))
        /\ UNCHANGED << pageVars, flowVars >>
        /\ UNCHANGED panelVars
        /\ lastEvent' = Event(key, 0)

\* The user activates the Start Chat button of an attached overlay.
ClickStartChat ==
    \E b \in bodyChildren :
        LET r == handleStartChat(Ctrl, b.chid)
        IN /\ SetCtrl(r.ctrl)
           /\ starts' = Append(starts, [from |-> b.click, arg |-> r.arg,
                                        boxOpenAtCall |-> r.boxOpenAtCall,
                                        status |-> "pending"])
           /\ UNCHANGED << pageVars, fetches, unhandled >>
           /\ UNCHANGED panelVars
           /\ lastEvent' = Event("startChat", b.click)

\* The host's selectCharacterById promise settles.
StartSettle ==
    \E i \in DOMAIN starts, outcome \in {"resolve", "reject"} :
        LET r == startChatSettled(outcome)
        IN /\ starts[i].status = "pending"
           /\ starts' = [starts EXCEPT ![i].status = "settled"]
           /\ unhandled' = IF r.escaped THEN unhandled \cup {i} ELSE unhandled
           /\ UNCHANGED << ctrlVars, pageVars, fetches >>
           /\ UNCHANGED panelVars
           /\ lastEvent' = [Event(outcome, i) EXCEPT !.logged = r.logged]

\* The host opens or collapses its right navigation drawer.
HostToggleDrawer ==
    /\ drawerExists
    /\ drawerClasses' = IF "openDrawer" \in drawerClasses
                        THEN {"closedDrawer"} ELSE {"openDrawer"}
    /\ iconClasses' = IF ~iconExists THEN iconClasses
                      ELSE IF "openDrawer" \in drawerClasses
                      THEN {"closedIcon"} ELSE {"openIcon"}
    /\ UNCHANGED << currentBox, escapeKeyHandler, drawerWasOpen, bodyChildren,
                    keydownListeners, pageVars, flowVars >>
    /\ UNCHANGED panelVars
    /\ lastEvent' = [Event("hostDrawer", 0) EXCEPT !.changed = FALSE,
                                                   !.restored = FALSE]

\* The host enters or leaves bulk-selection mode.
HostToggleBulk ==
    /\ bulkSelect' = ~bulkSelect
    /\ UNCHANGED << ctrlVars, drawerExists, iconExists, startup, flowVars >>
    /\ UNCHANGED panelVars
    /\ lastEvent' = Event("hostBulk", 0)

Next ==
    \/ ListClick
    \/ FetchSettle
    \/ ClickClose
    \/ ClickBackground
    \/ ClickInside
    \/ KeyDown
    \/ ClickStartChat
    \/ StartSettle
    \/ HostToggleDrawer
    \/ HostToggleBulk

Spec == Init /\ [][Next]_vars

\* ================================================= section builder alone
MaxLen == 2
MaxAlts == 2
MaxOrder == 2
MaxOps == 2

Alphabet == { " ", "a" }

Strings(n) == UNION { [1..k -> Alphabet] : k \in 0..n }

\* Values of a text field of a record.
FieldValues == { Absent } \cup { Text(str) : str \in Strings(MaxLen) }

FieldChoices == { Absent, Text(<< >>), Text(<< " " >>), Text(<< " ", "x", " " >>) }

\* Entries of alternate_greetings: null, empty, blank, and two greetings.
AltChoices == { Absent, Text(<< >>), Text(<< " " >>), Text(<< "b" >>),
                Text(<< " ", "c", " " >>) }

AltLists == UNION { [1..k -> AltChoices] : k \in 0..MaxAlts }

AlternateGreetings ==
    { [has |-> FALSE, list |-> << >>] } \cup { [has |-> TRUE, list |-> l] : l \in AltLists }

\* The record of the scenario: name, description, first_mes and two
\* alternates, the second empty; every other field absent.
AriaRecord ==
    [ NoRecord EXCEPT
        !.name = Text(<< "A", "r", "i", "a" >>),
        !.description = Text(<< "A", " ", "w", "a", "n", "d", "e", "r", "e", "r", "." >>),
        !.first_mes = Text(<< "H", "e", "l", "l", "o", "!" >>),
        !.alternate_greetings = [has |-> TRUE, list |-> << Text(<< "H", "i", " ", "t", "h", "e", "r", "e", "!" >>), Text(<< >>) >>] ]

\* A record with every field filled in.
FullRecord ==
    [ name |-> Text(<< "F" >>), description |-> Text(<< "d" >>),
      creator_notes |-> Text(<< "n" >>), scenario |-> Text(<< "s" >>),
      personality |-> Text(<< "p" >>), mes_example |-> Text(<< "e" >>),
      first_mes |-> Text(<< "f" >>),
      alternate_greetings |-> [has |-> TRUE, list |-> << >>] ]

\* A record with the given plain fields.
PlainRecord(d, f) ==
    [ FullRecord EXCEPT !.description = d, !.scenario = f[1], !.personality = f[2],
                        !.creator_notes = f[3], !.mes_example = f[4] ]

\* A record with the given greetings.
GreetingRecord(m, g) ==
    [ NoRecord EXCEPT !.description = Text(<< "d" >>), !.first_mes = m,
                      !.alternate_greetings = g ]

\* Section configurations a persisted settings object can hold: any order
\* values, at most one kind hidden (h), the keys in declaration order or in
\* the reverse of it, and possibly an entry of a kind that is not recognized.
Reverse(seq) == [ i \in DOMAIN seq |-> seq[Len(seq) + 1 - i] ]

LegacyEntry == [id |-> "legacyTab", order |-> 1, visible |-> TRUE, expanded |-> FALSE]

KeyOrders == { "declared", "reversed", "legacy" }

TabConfig(o, h, keys) ==
    LET c == [ i \in DOMAIN TabIds |->
                 [ id |-> TabIds[i], order |-> o[i], visible |-> i # h,
                   expanded |-> defaultTabConfig[i].expanded ] ]
    IN CASE keys = "reversed" -> Reverse(c)
         [] keys = "legacy" -> SubSeq(c, 1, 2) \o << LegacyEntry >> \o SubSeq(c, 3, Len(c))
         [] OTHER -> c

\* The defaults, with the description entry shown or hidden.
PlainSettings ==
    { [ DefaultSettings EXCEPT !.tabConfig[1].visible = shown ] : shown \in BOOLEAN }

\* The display mode and the firstMessage entry's expanded flag.
GreetingSettings ==
    { [ DefaultSettings EXCEPT !.useAccordionFirstMessage = acc,
                               !.tabConfig[2].expanded = exp ] :
        acc \in BOOLEAN, exp \in BOOLEAN }

InitBuild ==
    /\ AppInit
    /\ drawerExists /\ "openDrawer" \in drawerClasses
    /\ powerUser = [has |-> FALSE, value |-> DefaultSettings]
    /\ tabDefaults = FreshDefaults
    /\ body = << >>
    /\ panelEvent = PanelEvent("idle")
    /\ \/ /\ marked \in { "null", "loaded", "throwing" }
          /\ extensionSettings \in PlainSettings
          /\ \/ characterData = AriaRecord
             \/ \E d \in FieldValues, f \in [1..4 -> FieldChoices] :
                   characterData = PlainRecord(d, f)
       \/ /\ marked \in { "null", "loaded" }
          /\ extensionSettings \in GreetingSettings
          /\ \E m \in FieldValues, g \in AlternateGreetings :
                characterData = GreetingRecord(m, g)
       \/ /\ marked = "loaded"
          /\ characterData = FullRecord
          /\ \E o \in [DOMAIN TabIds -> 0..MaxOrder], h \in 0..Len(TabIds),
                keys \in KeyOrders :
                /\ h # 0 => keys # "reversed"
                /\ extensionSettings =
                       [DefaultSettings EXCEPT !.tabConfig = TabConfig(o, h, keys)]

\* createCharacterBox runs on the record: the body is built anew.
BuildBox ==
    /\ body' = createCharacterBoxBody(characterData)
    /\ panelEvent' = [PanelEvent("build") EXCEPT !.priorIndex = NavIndex(body)]
    /\ UNCHANGED << appVars, settingsVars, marked, characterData >>

\* The user activates the previous arrow of a swipe section.
ClickLeftArrow ==
    \E pos \in DOMAIN body :
        /\ body[pos].nav
        /\ body' = [body EXCEPT ![pos] = leftArrowClick(@)]
        /\ panelEvent' = [PanelEvent("previous") EXCEPT !.pos = pos,
                                                       !.section = body[pos]]
        /\ UNCHANGED << appVars, settingsVars, marked, characterData >>

\* The user activates the next arrow of a swipe section.
ClickRightArrow ==
    \E pos \in DOMAIN body :
        /\ body[pos].nav
        /\ body' = [body EXCEPT ![pos] = rightArrowClick(@)]
        /\ panelEvent' = [PanelEvent("next") EXCEPT !.pos = pos,
                                                   !.section = body[pos]]
        /\ UNCHANGED << appVars, settingsVars, marked, characterData >>

NextBuild ==
    \/ BuildBox
    \/ ClickLeftArrow
    \/ ClickRightArrow

SpecBuild == InitBuild /\ [][NextBuild]_vars

\* ======================================================= settings alone
\* Order values a persisted tabConfig can hold: nothing in loadSettings
\* checks them, so equal values are possible.
WithOrders(o) ==
    [ i \in DOMAIN TabIds |-> [defaultTabConfig[i] EXCEPT !.order = o[i]] ]

PersistedConfigs ==
    { WithOrders(<< 0, 1, 1, 3, 4, 5 >>), WithOrders(<< 2, 2, 2, 2, 2, 2 >>) }

ExtraOption == [key |-> "legacyOption", value |-> 1]

InitSettings ==
    /\ AppInit
    /\ drawerExists /\ "openDrawer" \in drawerClasses
    /\ marked = "loaded"
    /\ characterData = FullRecord
    /\ body = << >>
    /\ tabDefaults = FreshDefaults
    /\ \/ /\ extensionSettings = DefaultSettings
          /\ powerUser = [has |-> FALSE, value |-> DefaultSettings]
       \/ /\ extensionSettings \in { [DefaultSettings EXCEPT !.tabConfig = c,
                                                              !.extra = { ExtraOption }] :
                                       c \in PersistedConfigs }
          /\ powerUser = [has |-> TRUE, value |-> extensionSettings]
    /\ panelEvent = [PanelEvent("idle") EXCEPT
                       !.fromDefaults = (extensionSettings = DefaultSettings)]

\* The user activates an enabled move button of a row of the settings panel.
SwapTabOrder ==
    \E i \in DOMAIN extensionSettings.tabConfig, direction \in { Up, Down } :
        LET tabId == extensionSettings.tabConfig[i].id
            r == swapTabOrder(extensionSettings.tabConfig, tabId, direction)
            back == /\ panelEvent.op = "swap" /\ ~panelEvent.roundTrip
                    /\ panelEvent.id = tabId /\ panelEvent.direction = -direction
        IN /\ panelEvent.step < MaxOps
           /\ MoveEnabled(extensionSettings.tabConfig, tabId, direction)
           /\ extensionSettings' = [extensionSettings EXCEPT !.tabConfig = r.tabConfig]
           /\ tabDefaults' = defaultsAfter(tabDefaults, r.tabConfig)
           /\ powerUser' = IF r.saved THEN saveSettings(extensionSettings') ELSE powerUser
           /\ panelEvent' = [PanelEvent("swap") EXCEPT
                               !.id = tabId, !.direction = direction,
                               !.config = extensionSettings.tabConfig,
                               !.roundTrip = back,
                               !.origin = IF back THEN panelEvent.config ELSE << >>,
                               !.step = panelEvent.step + 1,
                               !.prev = panelEvent.op,
                               !.fromDefaults = panelEvent.fromDefaults,
                               !.before = extensionSettings]
           /\ UNCHANGED << appVars, buildVars >>

\* What every listener of the panel records of its run.
Handled(op, tabId) ==
    [PanelEvent(op) EXCEPT !.id = tabId, !.step = panelEvent.step + 1,
                           !.prev = panelEvent.op,
                           !.fromDefaults = panelEvent.fromDefaults \/ op = "reset",
                           !.config = extensionSettings.tabConfig,
                           !.before = extensionSettings]

\* The user clicks a row's visibility button.
ToggleVisibility ==
    \E i \in DOMAIN extensionSettings.tabConfig :
        LET tabId == extensionSettings.tabConfig[i].id
            r == toggleVisibility(extensionSettings, powerUser, tabId)
            again == panelEvent.op = "toggle" /\ panelEvent.id = tabId
        IN /\ panelEvent.step < MaxOps
           /\ extensionSettings' = r.settings
           /\ powerUser' = r.store
           /\ tabDefaults' = defaultsAfter(tabDefaults, r.settings.tabConfig)
           /\ panelEvent' = [Handled("toggle", tabId) EXCEPT
                               !.roundTrip = again,
                               !.origin = IF again THEN panelEvent.config ELSE << >>]
           /\ UNCHANGED << appVars, buildVars >>

\* The user changes a row's expanded checkbox; it is disabled while the
\* row is hidden, and a change event carries the other value.
ChangeExpanded ==
    \E i \in DOMAIN extensionSettings.tabConfig :
        LET cfg == extensionSettings.tabConfig[i]
            r == setExpanded(extensionSettings, powerUser, cfg.id, ~cfg.expanded)
        IN /\ panelEvent.step < MaxOps
           /\ cfg.visible
           /\ extensionSettings' = r.settings
           /\ powerUser' = r.store
           /\ tabDefaults' = defaultsAfter(tabDefaults, r.settings.tabConfig)
           /\ panelEvent' = [Handled("expand", cfg.id) EXCEPT !.checked = ~cfg.expanded]
           /\ UNCHANGED << appVars, buildVars >>

\* The user changes the first-message display mode checkbox.
ChangeDisplayMode ==
    LET checked == ~extensionSettings.useAccordionFirstMessage
        r == setDisplayMode(extensionSettings, powerUser, checked)
    IN /\ panelEvent.step < MaxOps
       /\ extensionSettings' = r.settings
       /\ powerUser' = r.store
       /\ panelEvent' = [Handled("mode", "none") EXCEPT !.checked = checked]
       /\ UNCHANGED << appVars, buildVars, tabDefaults >>

BoxWidths == { 60, 80 }

\* The user drags the box-width slider to another value.
InputBoxWidth ==
    \E value \in BoxWidths \ { extensionSettings.boxWidth } :
        LET r == setBoxWidth(extensionSettings, powerUser, value)
        IN /\ panelEvent.step < MaxOps
           /\ extensionSettings' = r.settings
           /\ powerUser' = r.store
           /\ panelEvent' = Handled("width", "none")
           /\ UNCHANGED << appVars, buildVars, tabDefaults >>

\* The user clicks Reset to Defaults.
ResetSettings ==
    LET r == resetSettings(tabDefaults)
    IN /\ panelEvent.step < MaxOps
       /\ extensionSettings' = r.settings
       /\ powerUser' = r.store
       /\ tabDefaults' = [tabDefaults EXCEPT !.shared = r.shared]
       /\ panelEvent' = Handled("reset", "none")
       /\ UNCHANGED << appVars, buildVars >>

\* A card is clicked and createCharacterBox builds the modal of its
\* record under the settings as they are now.
CreateCharacterBox ==
    /\ panelEvent.step < MaxOps
    /\ body' = createCharacterBoxBody(characterData)
    /\ panelEvent' = Handled("build", "none")
    /\ UNCHANGED << appVars, settingsVars, marked, characterData >>

NextSettings ==
    \/ CreateCharacterBox
    \/ SwapTabOrder
    \/ ToggleVisibility
    \/ ChangeExpanded
    \/ ChangeDisplayMode
    \/ InputBoxWidth
    \/ ResetSettings

SpecSettings == InitSettings /\ [][NextSettings]_vars

\* ====================================================== loadSettings alone
TopKeys == { "useAccordionFirstMessage", "boxWidth" }

\* The tabConfig an earlier session left behind: no entry at its default
\* values, the kinds of `missing` not there, possibly an unrecognized entry.
PersistedTabConfig(missing, extras) ==
    LET full == [ i \in DOMAIN TabIds |->
                    [ id |-> TabIds[i], order |-> Len(TabIds) - i,
                      visible |-> i % 2 = 0, expanded |-> i % 3 = 0 ] ]
        kept == SelectSeq(full, LAMBDA e : e.id \notin missing)
    IN IF extras THEN << LegacyEntry >> \o kept ELSE kept

\* A persisted settings object: the top-level keys of `lacks` are not in
\* it, its tabConfig is "absent", "null" or "present", the last entry of a
\* present tabConfig has no field `field`, and with `extras` it carries a
\* key and a tabConfig entry this version does not know.
Persisted(lacks, tabs, missing, field, extras) ==
    LET tabConfig == IF tabs = "present" THEN PersistedTabConfig(missing, extras)
                     ELSE << >>
    IN [ useAccordionFirstMessage |-> "useAccordionFirstMessage" \notin lacks,
         boxWidth |-> IF "boxWidth" \in lacks THEN 0 ELSE 60,
         tabConfig |-> tabConfig,
         absent |-> lacks \cup (IF tabs = "absent" THEN { "tabConfig" } ELSE {}),
         nulls |-> IF tabs = "null" THEN { "tabConfig" } ELSE {},
         absentFields |-> IF field = "none" \/ tabConfig = << >> THEN {}
                          ELSE { << tabConfig[Len(tabConfig)].id, field >> },
         extra |-> IF extras THEN { ExtraOption } ELSE {} ]

MissingKinds == { m \in SUBSET { TabIds[i] : i \in DOMAIN TabIds } : Cardinality(m) <= 2 }

InitLoad ==
    /\ AppInit
    /\ drawerExists /\ "openDrawer" \in drawerClasses
    /\ marked = "loaded"
    /\ characterData = NoRecord
    /\ body = << >>
    /\ panelEvent = PanelEvent("idle")
    /\ tabDefaults = FreshDefaults
    /\ extensionSettings = DefaultSettings
    /\ \/ powerUser = [has |-> FALSE, value |-> DefaultSettings]
       \/ \E lacks \in SUBSET TopKeys, tabs \in { "absent", "null", "present" },
             missing \in MissingKinds, field \in { "none", "visible", "expanded" },
             extras \in BOOLEAN :
             /\ tabs # "present" => (missing = {} /\ field = "none")
             /\ powerUser = [has |-> TRUE,
                             value |-> Persisted(lacks, tabs, missing, field, extras)]

\* jQuery ready: loadSettings() runs on what the store holds, index.js:1074.
LoadSettings ==
    LET r == loadSettings(extensionSettings, powerUser, tabDefaults.entries)
    IN /\ panelEvent.op = "idle"
       /\ extensionSettings' = r
       /\ panelEvent' = [PanelEvent("load") EXCEPT !.before = extensionSettings]
       /\ UNCHANGED << appVars, buildVars, powerUser, tabDefaults >>

NextLoad ==
    \/ LoadSettings

SpecLoad == InitLoad /\ [][NextLoad]_vars

\* ============================================================ startup alone
LoadOutcomes == { "error", "ok", "okThrowing" }

InitStartup ==
    /\ PageInit
    /\ drawerExists /\ "openDrawer" \in drawerClasses
    /\ \E container \in BOOLEAN, autoFire \in BOOLEAN :
          startup = [ phase |-> "loading", registered |-> FALSE, ready |-> FALSE,
                      delivered |-> FALSE, listening |-> FALSE,
                      container |-> container, autoFire |-> autoFire ]
    /\ marked = "null"
    /\ powerUser = [has |-> FALSE, value |-> DefaultSettings]
    /\ tabDefaults = FreshDefaults
    /\ extensionSettings \in GreetingSettings
    /\ body = << >>
    /\ panelEvent = PanelEvent("idle")
    /\ \/ characterData = AriaRecord
       \/ \E m \in FieldValues : characterData = GreetingRecord(m, [has |-> FALSE, list |-> << >>])

\* The script element of the library loads or fails, and init() goes on.
LoadMarkedSettle ==
    \E outcome \in LoadOutcomes :
        /\ startup.phase = "loading"
        /\ marked' = loadMarkedLibrary(marked, outcome)
        /\ startup' = init(startup, marked')
        /\ panelEvent' = PanelEvent("libraryLoad")
        /\ UNCHANGED << ctrlVars, drawerExists, iconExists, bulkSelect, flowVars,
                        lastEvent, settingsVars, characterData, body >>

\* The host emits APP_READY; a handler registered by then is run.
HostAppReady ==
    /\ ~startup.ready
    /\ startup' = IF startup.registered
                  THEN setupCharacterClickInterception([startup EXCEPT !.ready = TRUE])
                  ELSE [startup EXCEPT !.ready = TRUE]
    /\ panelEvent' = PanelEvent("appReady")
    /\ UNCHANGED << ctrlVars, drawerExists, iconExists, bulkSelect, flowVars,
                    lastEvent, settingsVars, buildVars >>

\* A card is clicked, its fetch succeeds and createCharacterBox builds the
\* modal of the record.
InterceptedClick ==
    /\ startup.listening
    /\ body' = createCharacterBoxBody(characterData)
    /\ panelEvent' = PanelEvent("build")
    /\ UNCHANGED << appVars, settingsVars, marked, characterData >>

NextStartup ==
    \/ LoadMarkedSettle
    \/ HostAppReady
    \/ InterceptedClick

SpecStartup == InitStartup /\ [][NextStartup]_vars

\* ================================================================ claims
Closed(s) == s.currentBox = NoBox /\ s.escapeKeyHandler = NoHandler

Dismissals == { "closeButton", "background", "Escape" }

\* The fetch ids whose overlay is attached to the document.
AttachedClicks == { b.click : b \in bodyChildren }

\* C1: at most one overlay is attached to the document and at most one
\* keydown listener is registered, whatever was done before; and right
\* after an openBox call the one attached overlay is the box just opened and
\* the one registered listener is the closure that call created.
C1_AtMostOneInstance ==
    /\ Cardinality(bodyChildren) <= 1
    /\ Cardinality(keydownListeners) <= 1
    /\ (lastEvent.op = "fetchSettle" /\ fetches[lastEvent.k].opens > 0) =>
          /\ currentBox.click = lastEvent.k
          /\ bodyChildren = {currentBox}
          /\ escapeKeyHandler = lastEvent.k
          /\ keydownListeners = {escapeKeyHandler}

\* openBox ran while another overlay was open (two opens, no close between).
C1_Witness ==
    /\ lastEvent.op = "fetchSettle"
    /\ fetches[lastEvent.k].opens > 0
    /\ lastEvent.prevBox # 0
    /\ lastEvent.prevBox # lastEvent.k
    /\ bodyChildren = {currentBox}

\* C2: when entry A was clicked before entry B and both fetches have
\* resolved, a modal that is shown never carries A's record or identifier:
\* the earlier click's result is discarded.
C2_NewestClickWins ==
    \A a \in DOMAIN fetches, b \in DOMAIN fetches :
        (/\ a < b
         /\ fetches[a].chid # fetches[b].chid
         /\ fetches[a].opens + fetches[a].alerts > 0
         /\ fetches[b].opens > 0
         /\ currentBox # NoBox)
            => /\ currentBox.click # a
               /\ currentBox.rec # fetches[a].avatar
               /\ currentBox.chid # fetches[a].chid

\* C3: a click whose fetch was rejected, or whose record made the section
\* builder throw, gets one failure notice and leaves the controller as it
\* was; a click that got a notice never has openBox called for it and its
\* overlay is never attached; and the controller holds an overlay
\* exactly when it holds the Escape closure, each registered where it belongs.
C3_FailureOpensNothing ==
    /\ (lastEvent.op = "fetchSettle"
          /\ lastEvent.result \in {"rejected", "malformed"}) =>
             /\ fetches[lastEvent.k].alerts = 1
             /\ lastEvent.logged
             /\ ~lastEvent.changed
    /\ \A k \in DOMAIN fetches :
          fetches[k].alerts > 0 =>
             /\ fetches[k].opens = 0
             /\ fetches[k].alerts = 1
             /\ k \notin AttachedClicks
             /\ currentBox.click # k
    /\ (currentBox = NoBox) <=> (escapeKeyHandler = NoHandler)
    /\ bodyChildren = (IF currentBox = NoBox THEN {} ELSE {currentBox})
    /\ keydownListeners = (IF escapeKeyHandler = NoHandler THEN {}
                           ELSE {escapeKeyHandler})

\* A fetch answered with a non-success status has just been handled.
C3_Witness ==
    /\ lastEvent.op = "fetchSettle"
    /\ lastEvent.result = "rejected"
    /\ lastEvent.logged
    /\ fetches[lastEvent.k].alerts = 1

\* C4: closeBox applied to a Closed controller changes nothing, and applied
\* twice to any controller state gives what one application gives.
C4_CloseIdempotent ==
    /\ Closed(Ctrl) => closeBox(Ctrl) = Ctrl
    /\ closeBox(closeBox(Ctrl)) = closeBox(Ctrl)

\* closeBox has just closed an open modal; the controller is Closed.
C4_Witness ==
    /\ lastEvent.op \in Dismissals
    /\ lastEvent.prevBox # 0
    /\ lastEvent.changed
    /\ Closed(Ctrl)

\* C5: the Close button, a click on the overlay background and the Escape
\* key, each used on an open modal, all end in the same state: no overlay
\* held or attached, no Escape closure held or registered, drawer flag clear.
C5_DismissalsClose ==
    (lastEvent.op \in Dismissals /\ lastEvent.prevBox # 0) =>
        /\ Closed(Ctrl)
        /\ bodyChildren = {}
        /\ keydownListeners = {}
        /\ ~Truthy(drawerWasOpen)

\* Escape was pressed on an open modal.
C5_Witness ==
    /\ lastEvent.op = "Escape"
    /\ lastEvent.prevBox # 0
    /\ bodyChildren = {}

\* C6: a click on an element inside the modal content leaves the controller
\* as it was: still Open, same overlay attached, Escape closure registered.
C6_InnerClickKeepsOpen ==
    lastEvent.op \in InnerTargets =>
        /\ ~lastEvent.changed
        /\ currentBox # NoBox
        /\ currentBox.click = lastEvent.prevBox
        /\ bodyChildren = {currentBox}
        /\ keydownListeners = {escapeKeyHandler}

\* A section header of an open modal was clicked.
C6_Witness ==
    /\ lastEvent.op = "sectionSummary"
    /\ lastEvent.prevBox # 0
    /\ currentBox \in bodyChildren

\* The host calls made from the overlay of click k.
StartsFrom(k) == { i \in DOMAIN starts : starts[i].from = k }

\* What holds of Start Chat whichever way round close and call happen: one
\* host call per activated overlay, carrying the identifier openBox was
\* given for it, and the modal closed once the handler has run.
StartChatOnce ==
    /\ \A i \in DOMAIN starts :
          /\ starts[i].arg = ToString(fetches[starts[i].from].chid)
          /\ Cardinality(StartsFrom(starts[i].from)) = 1
    /\ lastEvent.op = "startChat" =>
          /\ Cardinality(StartsFrom(lastEvent.k)) = 1
          /\ lastEvent.prevBox = lastEvent.k
          /\ Closed(Ctrl)
          /\ bodyChildren = {}
          /\ keydownListeners = {}

\* C7 as stated: the host action is invoked exactly once with the
\* identifier given to openBox while the modal is still open, and the close
\* follows the invocation.
C7_CloseFollowsInvocation ==
    /\ StartChatOnce
    /\ \A i \in DOMAIN starts : starts[i].boxOpenAtCall

\* C7 amended: the modal is closed first; the host action is then invoked
\* exactly once, with the identifier given to openBox, no modal being held.
C7_CloseThenInvoke ==
    /\ StartChatOnce
    /\ \A i \in DOMAIN starts : ~starts[i].boxOpenAtCall

\* Start Chat was activated on the overlay of the second character.
C7_Witness ==
    /\ lastEvent.op = "startChat"
    /\ starts # << >>
    /\ starts[Len(starts)].arg = <<1>>
    /\ starts[Len(starts)].from = lastEvent.k

\* C8: when the host start action rejects, the failure is logged and nothing
\* else happens: no rejection goes uncaught, the controller is as it was (a
\* Closed controller stays Closed, no Escape closure registered) and the
\* overlay the chat was started from is not attached again.
C8_StartFailureOnlyLogged ==
    /\ unhandled = {}
    /\ lastEvent.op = "reject" =>
          /\ lastEvent.logged
          /\ ~lastEvent.changed
          /\ currentBox.click = lastEvent.prevBox
          /\ starts[lastEvent.k].from \notin AttachedClicks
          /\ lastEvent.prevBox = 0 => (Closed(Ctrl) /\ keydownListeners = {})

\* The host start action has just rejected with the controller Closed.
C8_Witness ==
    /\ lastEvent.op = "reject"
    /\ lastEvent.logged
    /\ Closed(Ctrl)

\* C9: in bulk-selection mode a list click is left alone: not prevented,
\* not stopped, no fetch issued, controller state unchanged.
C9_BulkPassesThrough ==
    (lastEvent.op = "listClick" /\ bulkSelect) =>
        /\ ~lastEvent.prevented
        /\ ~lastEvent.stopped
        /\ ~lastEvent.fetched
        /\ ~lastEvent.changed
        /\ currentBox.click = lastEvent.prevBox

\* A card with a known identifier was clicked, without SHIFT, in bulk mode.
C9_Witness ==
    /\ lastEvent.op = "listClick"
    /\ bulkSelect
    /\ lastEvent.card /\ lastEvent.hasId /\ ~lastEvent.shift
    /\ ~lastEvent.logged

\* C10: a click on a character card with SHIFT held is not prevented,
\* issues no fetch and opens no modal.
C10_ShiftBypasses ==
    (lastEvent.op = "listClick" /\ lastEvent.card /\ lastEvent.shift) =>
        /\ ~lastEvent.prevented
        /\ ~lastEvent.fetched
        /\ ~lastEvent.changed
        /\ currentBox.click = lastEvent.prevBox

\* A card carrying an identifier was SHIFT-clicked outside bulk mode.
C10_Witness ==
    /\ lastEvent.op = "listClick"
    /\ ~bulkSelect
    /\ lastEvent.card /\ lastEvent.hasId /\ lastEvent.shift

\* C11: a list click that hits no card, or a card without identifier, is
\* ignored: no fetch, no error logged, controller unchanged.  A click whose
\* identifier resolves to no local record logs an error and stops there: no
\* fetch is issued and the controller is unchanged; so every fetch that was
\* issued is for a record the host holds.
C11_UnresolvedClickAborts ==
    /\ (lastEvent.op = "listClick" /\ (~lastEvent.card \/ ~lastEvent.hasId)) =>
          /\ ~lastEvent.fetched
          /\ ~lastEvent.logged
          /\ ~lastEvent.changed
          /\ currentBox.click = lastEvent.prevBox
    /\ (lastEvent.op = "listClick" /\ lastEvent.logged) =>
          /\ lastEvent.card /\ lastEvent.hasId
          /\ ~lastEvent.fetched
          /\ ~lastEvent.changed
          /\ currentBox.click = lastEvent.prevBox
    /\ \A k \in DOMAIN fetches :
          /\ fetches[k].avatar # "undefined"
          /\ fetches[k].avatar = CharacterAt(fetches[k].chid)

\* A card whose identifier names no local record was clicked.
C11_Witness ==
    /\ lastEvent.op = "listClick"
    /\ lastEvent.card /\ lastEvent.hasId
    /\ lastEvent.logged
    /\ lastEvent.prevented

\* ------------------------------------------------- section builder claims
Built == panelEvent.op \in { "build", "previous", "next" }

PlainKinds == { "description", "scenario", "personality", "creatorNotes",
                "exampleMessages" }

\* The field of the record a plain section kind shows.
FieldOf(record, kind) ==
    CASE kind = "description" -> record.description
      [] kind = "scenario" -> record.scenario
      [] kind = "personality" -> record.personality
      [] kind = "creatorNotes" -> record.creator_notes
      [] OTHER -> record.mes_example

Blank(field) == field.has /\ Trim(field.str) = << >>

SectionsOf(kind) == { i \in DOMAIN body : body[i].kind = kind }

\* The config entries of a kind that are shown.
ShownEntries(kind) ==
    { i \in DOMAIN extensionSettings.tabConfig :
        /\ extensionSettings.tabConfig[i].id = kind
        /\ extensionSettings.tabConfig[i].visible }

\* C12: once createCharacterBox has built the body, a plain kind whose field
\* is the empty string or only whitespace has no section, a record whose
\* primary greeting and alternates are all empty or whitespace has no First
\* Message section, and no section of the body has empty content.
C12_BlankFieldOmitted ==
    Built =>
        /\ \A kind \in PlainKinds :
              Blank(FieldOf(characterData, kind)) => SectionsOf(kind) = {}
        /\ ( /\ Blank(characterData.first_mes)
             /\ \A i \in DOMAIN characterData.alternate_greetings.list :
                   ~characterData.alternate_greetings.list[i].has
                   \/ Blank(characterData.alternate_greetings.list[i]) )
              => SectionsOf("firstMessage") = {}
        /\ \A i \in DOMAIN body :
              body[i].content.text # << >> /\ Trim(body[i].content.text) # << >>

C12_Witness ==
    /\ panelEvent.op = "build"
    /\ characterData.description = Text(<< " ", " " >>)
    /\ characterData.scenario = Text(<< >>)
    /\ characterData.personality = Text(<< " ", "x", " " >>)
    /\ SectionsOf("description") = {} /\ SectionsOf("scenario") = {}
    /\ SectionsOf("personality") # {}

\* C13 as stated: a plain kind whose field is absent from the record has no
\* section.
C13_AbsentFieldOmitted ==
    Built =>
        \A kind \in PlainKinds :
            ~FieldOf(characterData, kind).has => SectionsOf(kind) = {}

\* C13: a scenario, personality, creator-notes or example-messages field
\* that is absent has no section; an absent description is replaced by the
\* text `No description available.`, and a shown description entry then
\* yields a Description section holding that text.
C13_AbsentFieldOrPlaceholder ==
    Built =>
        /\ \A kind \in PlainKinds \ { "description" } :
              ~FieldOf(characterData, kind).has => SectionsOf(kind) = {}
        /\ ~characterData.description.has =>
              /\ Cardinality(SectionsOf("description")) =
                     Cardinality(ShownEntries("description"))
              /\ \A i \in SectionsOf("description") :
                     body[i].content.text = NoDescription

C13_Witness ==
    /\ panelEvent.op = "build"
    /\ ~characterData.description.has
    /\ ~characterData.scenario.has
    /\ SectionsOf("description") # {}
    /\ SectionsOf("scenario") = {}

\* The position of a kind's entry among the keys of tabConfig.
EntryPos(kind) ==
    CHOOSE i \in DOMAIN extensionSettings.tabConfig :
        extensionSettings.tabConfig[i].id = kind

EntryOf(kind) == extensionSettings.tabConfig[EntryPos(kind)]

HasEntry(kind) ==
    \E i \in DOMAIN extensionSettings.tabConfig :
        extensionSettings.tabConfig[i].id = kind

\* Whether the record gives a kind something to show.
HasContent(record, kind) ==
    IF kind = "firstMessage" THEN getAllFirstMessages(record) # << >>
    ELSE TabContent(record, kind) # << >> /\ Trim(TabContent(record, kind)) # << >>

\* C14: every section of a built body is of a recognized kind whose entry
\* is visible; of two sections of different kinds the earlier one has the
\* smaller order value or, on equal values, the earlier key; every visible
\* recognized entry with something to show has its section; and an entry of
\* an unrecognized kind contributes nothing.
C14_SectionOrder ==
    Built =>
        /\ \A i \in DOMAIN body :
              /\ KnownTab(body[i].kind) /\ HasEntry(body[i].kind)
              /\ EntryOf(body[i].kind).visible
        /\ \A i, j \in DOMAIN body :
              (i < j /\ body[i].kind # body[j].kind) =>
                  \/ EntryOf(body[i].kind).order < EntryOf(body[j].kind).order
                  \/ /\ EntryOf(body[i].kind).order = EntryOf(body[j].kind).order
                     /\ EntryPos(body[i].kind) < EntryPos(body[j].kind)
        /\ \A p \in DOMAIN extensionSettings.tabConfig :
              LET e == extensionSettings.tabConfig[p]
              IN (SectionsOf(e.id) # {}) <=>
                     (e.visible /\ KnownTab(e.id) /\ HasContent(characterData, e.id))

C14_Witness ==
    /\ panelEvent.op = "build"
    /\ HasEntry("legacyTab")
    /\ \E p \in DOMAIN extensionSettings.tabConfig :
          ~extensionSettings.tabConfig[p].visible
    /\ Len(body) = 5
    /\ \E i, j \in DOMAIN body :
          /\ i < j
          /\ EntryOf(body[i].kind).order = EntryOf(body[j].kind).order
          /\ EntryOf(body[i].kind).order = LegacyEntry.order
    /\ \E i, j \in DOMAIN body :
          /\ i < j
          /\ EntryPos(body[i].kind) > EntryPos(body[j].kind)

\* C15: a swipe section over n >= 2 greetings always shows a greeting i of
\* 1..n under the header `First Message (i/n)`, with the previous arrow
\* marked disabled exactly at i = 1 and the next arrow exactly at i = n;
\* previous at i = 1 and next at i = n leave the section as it was.
C15_SwipeNavigation ==
    Built =>
        /\ \A p \in DOMAIN body :
              ( /\ body[p].kind = "firstMessage"
                /\ ~extensionSettings.useAccordionFirstMessage
                /\ Len(getAllFirstMessages(characterData)) >= 2 ) =>
                  LET sec == body[p]
                      n == Len(sec.messages)
                      i == sec.index + 1
                  IN /\ sec.nav
                     /\ sec.messages = getAllFirstMessages(characterData)
                     /\ i \in 1..n
                     /\ sec.title = [label |-> "First Message", counter |-> << i, n >>]
                     /\ sec.content.text = sec.messages[i]
                     /\ sec.leftDisabled <=> (i = 1)
                     /\ sec.rightDisabled <=> (i = n)
        /\ ( panelEvent.op = "previous" /\ panelEvent.section.index + 1 = 1 )
              => body[panelEvent.pos] = panelEvent.section
        /\ ( /\ panelEvent.op = "next"
             /\ panelEvent.section.index + 1 = Len(panelEvent.section.messages) )
              => body[panelEvent.pos] = panelEvent.section
        /\ ( panelEvent.op = "previous" /\ panelEvent.section.index + 1 > 1 )
              => body[panelEvent.pos].index = panelEvent.section.index - 1
        /\ ( /\ panelEvent.op = "next"
             /\ panelEvent.section.index + 1 < Len(panelEvent.section.messages) )
              => body[panelEvent.pos].index = panelEvent.section.index + 1

C15_Witness ==
    /\ panelEvent.op = "next"
    /\ Len(panelEvent.section.messages) = 3
    /\ panelEvent.section.index = 2
    /\ body[panelEvent.pos].rightDisabled /\ ~body[panelEvent.pos].leftDisabled
    /\ body[panelEvent.pos].title.counter = << 3, 3 >>

\* C16: a record with exactly one greeting gets, in swipe mode and in
\* accordion mode alike, one First Message section per shown entry, headed
\* `First Message` without a counter, showing that greeting, with no arrows.
C16_SingleGreeting ==
    ( Built /\ Len(getAllFirstMessages(characterData)) = 1 ) =>
        /\ Cardinality(SectionsOf("firstMessage")) =
               Cardinality(ShownEntries("firstMessage"))
        /\ \A p \in SectionsOf("firstMessage") :
              /\ body[p].title = [label |-> "First Message", counter |-> << >>]
              /\ ~body[p].nav
              /\ body[p].content.text = getAllFirstMessages(characterData)[1]

C16_Witness ==
    /\ panelEvent.op = "build"
    /\ extensionSettings.useAccordionFirstMessage
    /\ Blank(characterData.first_mes)
    /\ Len(characterData.alternate_greetings.list) = 2
    /\ Len(getAllFirstMessages(characterData)) = 1
    /\ Cardinality(SectionsOf("firstMessage")) = 1

\* C17: in accordion mode a greeting set of size n is rendered as n
\* sub-sections in set order; for n >= 2 the k-th is headed
\* `First Message (k/n)`; the first one starts open exactly when the
\* firstMessage entry is configured expanded and all the others start closed.
C17_Accordion ==
    ( /\ panelEvent.op = "build"
      /\ extensionSettings.useAccordionFirstMessage
      /\ ShownEntries("firstMessage") # {} ) =>
        LET messages == getAllFirstMessages(characterData)
            n == Len(messages)
            subs == SelectSeq(body, LAMBDA sec : sec.kind = "firstMessage")
        IN /\ Len(subs) = n
           /\ \A k \in 1..n :
                 /\ subs[k].content.text = messages[k]
                 /\ ~subs[k].nav
                 /\ n >= 2 => subs[k].title =
                       [label |-> "First Message", counter |-> << k, n >>]
                 /\ subs[k].open <=> (k = 1 /\ EntryOf("firstMessage").expanded)
           /\ \A p, q \in SectionsOf("firstMessage") :
                 \A r \in DOMAIN body : (p < r /\ r < q) => r \in SectionsOf("firstMessage")

C17_Witness ==
    /\ panelEvent.op = "build"
    /\ extensionSettings.useAccordionFirstMessage
    /\ EntryOf("firstMessage").expanded
    /\ Cardinality(SectionsOf("firstMessage")) = 3
    /\ \E p \in SectionsOf("firstMessage") :
          /\ body[p].open
          /\ body[p + 1].title.counter = << 2, 3 >> /\ ~body[p + 1].open
          /\ body[p + 2].title.counter = << 3, 3 >> /\ ~body[p + 2].open

\* The greeting set a record stands for: the trimmed primary greeting if
\* that is not empty, then the trimmed alternates that are not empty, in
\* their order.
GreetingSet(record) ==
    LET primary == IF record.first_mes.has /\ Trim(record.first_mes.str) # << >>
                   THEN << Trim(record.first_mes.str) >> ELSE << >>
        kept == SelectSeq(record.alternate_greetings.list,
                          LAMBDA alt : alt.has /\ Trim(alt.str) # << >>)
    IN primary \o [ i \in DOMAIN kept |-> Trim(kept[i].str) ]

\* The greetings a built body offers, in order.
ShownGreetings ==
    LET subs == SelectSeq(body, LAMBDA sec : sec.kind = "firstMessage")
    IN IF subs # << >> /\ subs[1].nav THEN subs[1].messages
       ELSE [ i \in DOMAIN subs |-> subs[i].content.text ]

\* C18: getAllFirstMessages yields the greeting set of the record; where the
\* firstMessage entry is shown the built body offers exactly that set, first
\* showing its first member (the first non-empty alternate when the primary
\* greeting is empty); and an empty set leaves the body without a First
\* Message section.
C18_GreetingSet ==
    panelEvent.op = "build" =>
        LET set == GreetingSet(characterData)
        IN /\ getAllFirstMessages(characterData) = set
           /\ ShownEntries("firstMessage") # {} => ShownGreetings = set
           /\ set = << >> => SectionsOf("firstMessage") = {}
           /\ (set # << >> /\ ShownEntries("firstMessage") # {}) =>
                 \E p \in SectionsOf("firstMessage") :
                    /\ body[p].content.text = set[1]
                    /\ \A q \in SectionsOf("firstMessage") : p <= q

C18_Witness ==
    /\ panelEvent.op = "build"
    /\ characterData.first_mes = Text(<< " " >>)
    /\ characterData.alternate_greetings.list =
           << Text(<< " " >>), Text(<< " ", "c", " " >>) >>
    /\ ShownGreetings = << << "c" >> >>

\* C19: under the default settings the record {name: "Aria", description:
\* "A wanderer.", first_mes: "Hello!", alternate_greetings: ["Hi there!", ""]}
\* is built into exactly two sections: Description, open as its entry says,
\* then First Message over the greetings "Hello!" and "Hi there!" headed
\* `First Message (1/2)`; no other kind has a section.
C19_AriaScenario ==
    ( /\ panelEvent.op = "build"
      /\ characterData = AriaRecord
      /\ extensionSettings = DefaultSettings ) =>
        /\ Len(body) = 2
        /\ body[1].kind = "description"
        /\ body[1].title = [label |-> "Description", counter |-> << >>]
        /\ body[1].content.text = AriaRecord.description.str
        /\ body[1].open = defaultTabConfig[1].expanded
        /\ body[1].open
        /\ body[2].kind = "firstMessage"
        /\ body[2].title = [label |-> "First Message", counter |-> << 1, 2 >>]
        /\ body[2].messages = << AriaRecord.first_mes.str,
                                 AriaRecord.alternate_greetings.list[1].str >>
        /\ body[2].content.text = AriaRecord.first_mes.str
        /\ body[2].open = defaultTabConfig[2].expanded
        /\ \A kind \in PlainKinds \ { "description" } : SectionsOf(kind) = {}

C19_Witness ==
    /\ panelEvent.op = "build"
    /\ characterData = AriaRecord
    /\ extensionSettings = DefaultSettings
    /\ Len(body) = 2

\* ---------------------------------------------------------- reorder claims
\* The order value of every entry of a tabConfig.
Orders(tabConfig) == [ i \in DOMAIN tabConfig |-> tabConfig[i].order ]

DistinctOrders(tabConfig) ==
    \A i, j \in DOMAIN tabConfig :
        i # j => tabConfig[i].order # tabConfig[j].order

ThenSwap(tabConfig, tabId, first, second) ==
    swapTabOrder(swapTabOrder(tabConfig, tabId, first).tabConfig, tabId, second).tabConfig

IsFirst(tabConfig, tabId) == FindIndex(SortByOrder(tabConfig), tabId) = 0

IsLast(tabConfig, tabId) == FindIndex(SortByOrder(tabConfig), tabId) = Len(tabConfig) - 1

\* C20 as stated: from every tabConfig and for every section A, A up then A
\* down, and A down then A up, leave every order value as it was.
C20_RoundTrip ==
    \A i \in DOMAIN extensionSettings.tabConfig :
        LET c == extensionSettings.tabConfig
            A == c[i].id
        IN /\ Orders(ThenSwap(c, A, Up, Down)) = Orders(c)
           /\ Orders(ThenSwap(c, A, Down, Up)) = Orders(c)

\* C20: from a tabConfig whose order values are pairwise different, A up then
\* A down restores every order value when A is not the first section, and A
\* down then A up restores them when A is not the last; for the first
\* section up changes nothing, and for the last section down changes
\* nothing, so there the pair acts as the single opposite move.  A round
\* trip made with the panel's move buttons from such a tabConfig ends in the
\* tabConfig it started from.
C20_RoundTripInside ==
    /\ \A i \in DOMAIN extensionSettings.tabConfig :
          LET c == extensionSettings.tabConfig
              A == c[i].id
          IN /\ (DistinctOrders(c) /\ ~IsFirst(c, A)) =>
                    ThenSwap(c, A, Up, Down) = c
             /\ (DistinctOrders(c) /\ ~IsLast(c, A)) =>
                    ThenSwap(c, A, Down, Up) = c
             /\ IsFirst(c, A) =>
                    /\ swapTabOrder(c, A, Up).tabConfig = c
                    /\ ThenSwap(c, A, Up, Down) = swapTabOrder(c, A, Down).tabConfig
             /\ IsLast(c, A) =>
                    /\ swapTabOrder(c, A, Down).tabConfig = c
                    /\ ThenSwap(c, A, Down, Up) = swapTabOrder(c, A, Up).tabConfig
    /\ ( /\ panelEvent.op = "swap" /\ panelEvent.roundTrip
         /\ DistinctOrders(panelEvent.origin) ) =>
           /\ extensionSettings.tabConfig = panelEvent.origin
           /\ powerUser = [has |-> TRUE, value |-> extensionSettings]

C20_Witness ==
    /\ panelEvent.op = "swap" /\ panelEvent.roundTrip
    /\ panelEvent.id = "scenario" /\ panelEvent.direction = Down
    /\ panelEvent.origin = defaultTabConfig
    /\ panelEvent.config # defaultTabConfig
    /\ extensionSettings.tabConfig = defaultTabConfig

\* ------------------------------------------------------------- load claims
Loaded == panelEvent.op = "load" /\ powerUser.has

\* The entry of a kind in a tabConfig.
TabEntry(tabConfig, tabId) ==
    tabConfig[CHOOSE i \in DOMAIN tabConfig : tabConfig[i].id = tabId]

DefaultEntry(tabId) == TabEntry(defaultTabConfig, tabId)

\* What the persisted object held is in the settings as it was: its
\* top-level values, its tabConfig entries with the fields they have, and
\* the keys this version does not know.
PersistedKept(settings, persisted) ==
    /\ "useAccordionFirstMessage" \notin persisted.absent =>
           settings.useAccordionFirstMessage = persisted.useAccordionFirstMessage
    /\ "boxWidth" \notin persisted.absent => settings.boxWidth = persisted.boxWidth
    /\ persisted.extra \subseteq settings.extra
    /\ ("tabConfig" \notin persisted.absent /\ "tabConfig" \notin persisted.nulls) =>
           /\ SubSeq(settings.tabConfig, 1, Len(persisted.tabConfig)) = persisted.tabConfig
           /\ persisted.absentFields \subseteq settings.absentFields

\* C22: after loadSettings on a persisted object whose tabConfig lacks
\* recognized kinds, the settings hold each of those kinds once, with the
\* default order, visible and expanded, and everything the persisted object
\* held is unchanged.
C22_MissingKindBackfilled ==
    ( /\ Loaded
      /\ "tabConfig" \notin powerUser.value.absent
      /\ "tabConfig" \notin powerUser.value.nulls ) =>
        /\ \A i \in DOMAIN TabIds :
              ~HasTab(powerUser.value.tabConfig, TabIds[i]) =>
                  /\ Cardinality({ p \in DOMAIN extensionSettings.tabConfig :
                                     extensionSettings.tabConfig[p].id = TabIds[i] }) = 1
                  /\ TabEntry(extensionSettings.tabConfig, TabIds[i]) =
                         DefaultEntry(TabIds[i])
                  /\ \A f \in { "order", "visible", "expanded" } :
                         << TabIds[i], f >> \notin extensionSettings.absentFields
        /\ Len(extensionSettings.tabConfig) =
               Len(powerUser.value.tabConfig)
                 + Cardinality({ i \in DOMAIN TabIds :
                                   ~HasTab(powerUser.value.tabConfig, TabIds[i]) })
        /\ PersistedKept(extensionSettings, powerUser.value)

C22_Witness ==
    /\ Loaded
    /\ ~HasTab(powerUser.value.tabConfig, "scenario")
    /\ HasTab(powerUser.value.tabConfig, "description")
    /\ HasTab(powerUser.value.tabConfig, "legacyTab")
    /\ TabEntry(powerUser.value.tabConfig, "description") # DefaultEntry("description")
    /\ powerUser.value.boxWidth = 60
    /\ HasTab(extensionSettings.tabConfig, "scenario")
    /\ extensionSettings.boxWidth = 60

\* C23 as stated: after loadSettings every default key is in the settings -
\* each top-level setting, each recognized kind, and each kind's order,
\* visible and expanded - with the default value where the persisted object
\* lacked it, and every other key of the persisted object is kept.
C23_EveryDefaultKeyPresent ==
    Loaded =>
        /\ extensionSettings.absent = {} /\ extensionSettings.nulls = {}
        /\ \A i \in DOMAIN TabIds : HasTab(extensionSettings.tabConfig, TabIds[i])
        /\ \A i \in DOMAIN TabIds, f \in { "order", "visible", "expanded" } :
              << TabIds[i], f >> \notin extensionSettings.absentFields
        /\ "boxWidth" \in powerUser.value.absent =>
              extensionSettings.boxWidth = DefaultSettings.boxWidth
        /\ "useAccordionFirstMessage" \in powerUser.value.absent =>
              extensionSettings.useAccordionFirstMessage =
                  DefaultSettings.useAccordionFirstMessage
        /\ PersistedKept(extensionSettings, powerUser.value)

\* ------------------------------------------------- settings panel claims
\* Entry i of a tabConfig comes before entry j in the panel's listing: by
\* order value, and by position among the keys where the values are equal.
ListedBefore(tabConfig, i, j) ==
    \/ tabConfig[i].order < tabConfig[j].order
    \/ tabConfig[i].order = tabConfig[j].order /\ i < j

\* The entries on the side `direction` of entry i in the listing.
Beyond(tabConfig, i, direction) ==
    { j \in DOMAIN tabConfig :
        IF direction = Up THEN ListedBefore(tabConfig, j, i)
        ELSE ListedBefore(tabConfig, i, j) }

\* The entry listed right next to entry i on that side.
Neighbour(tabConfig, i, direction) ==
    CHOOSE j \in Beyond(tabConfig, i, direction) :
        \A k \in Beyond(tabConfig, i, direction) \ { j } :
            IF direction = Up THEN ListedBefore(tabConfig, k, j)
            ELSE ListedBefore(tabConfig, j, k)

\* `after` is `before` with the order values of entry i and of its
\* neighbour exchanged, or `before` itself when i has no neighbour there.
Exchanged(before, after, i, direction) ==
    IF Beyond(before, i, direction) = {} THEN after = before
    ELSE LET n == Neighbour(before, i, direction)
         IN after = [ k \in DOMAIN before |->
                        IF k = i THEN [before[k] EXCEPT !.order = before[n].order]
                        ELSE IF k = n THEN [before[k] EXCEPT !.order = before[i].order]
                        ELSE before[k] ]

\* C21: swapTabOrder exchanges the order value of the given section with
\* that of its immediate neighbour in the stable listing of all sections,
\* hidden ones included; it changes nothing for the first section moved up
\* and the last moved down; visible, expanded and the order of every other
\* section stay as they were. A move button's click leaves exactly that.
C21_SwapWithNeighbour ==
    /\ \A i \in DOMAIN extensionSettings.tabConfig, direction \in { Up, Down } :
          LET r == swapTabOrder(extensionSettings.tabConfig,
                                extensionSettings.tabConfig[i].id, direction)
          IN /\ ~r.threw
             /\ Exchanged(extensionSettings.tabConfig, r.tabConfig, i, direction)
    /\ panelEvent.op = "swap" =>
          /\ \E i \in DOMAIN panelEvent.config :
                /\ panelEvent.config[i].id = panelEvent.id
                /\ Exchanged(panelEvent.config, extensionSettings.tabConfig,
                             i, panelEvent.direction)
          /\ extensionSettings = [panelEvent.before EXCEPT
                                    !.tabConfig = extensionSettings.tabConfig]

C21_Witness ==
    /\ panelEvent.op = "swap"
    /\ \E i, n \in DOMAIN panelEvent.config :
          /\ panelEvent.config[i].id = panelEvent.id
          /\ Beyond(panelEvent.config, i, panelEvent.direction) # {}
          /\ n = Neighbour(panelEvent.config, i, panelEvent.direction)
          /\ ~panelEvent.config[n].visible
          /\ panelEvent.config[n].order # panelEvent.config[i].order
          /\ extensionSettings.tabConfig[i].order = panelEvent.config[n].order
          /\ extensionSettings.tabConfig[n].order = panelEvent.config[i].order

\* C24: resetSettings replaces the whole settings object by the defaults
\* and saves it, whatever was changed before; its tabConfig is a copy, so
\* no change made before or after alters defaultTabConfig, and a reset in
\* any state would again give the defaults.
C24_ResetGivesDefaults ==
    /\ tabDefaults = FreshDefaults
    /\ resetSettings(tabDefaults).settings = DefaultSettings
    /\ panelEvent.op = "reset" =>
          /\ extensionSettings = DefaultSettings
          /\ powerUser = [has |-> TRUE, value |-> DefaultSettings]

C24_Witness ==
    /\ panelEvent.op = "reset"
    /\ panelEvent.before.tabConfig # defaultTabConfig
    /\ panelEvent.before.extra # {}
    /\ extensionSettings = DefaultSettings

PanelOps == { "swap", "toggle", "expand", "mode", "width", "reset" }

\* C25: every listener of the settings panel that changes the settings
\* calls saveSettings before it returns: after it, power_user.extensions
\* holds the current settings object. swapTabOrder skips the save only
\* where it changed nothing.
C25_ChangeIsSaved ==
    /\ panelEvent.op \in PanelOps =>
          powerUser = [has |-> TRUE, value |-> extensionSettings]
    /\ \A i \in DOMAIN extensionSettings.tabConfig, direction \in { Up, Down } :
          LET r == swapTabOrder(extensionSettings.tabConfig,
                                extensionSettings.tabConfig[i].id, direction)
          IN ~r.saved => r.tabConfig = extensionSettings.tabConfig

C25_Witness ==
    /\ panelEvent.op = "mode"
    /\ panelEvent.step = 1
    /\ panelEvent.before = DefaultSettings
    /\ extensionSettings.useAccordionFirstMessage
    /\ powerUser.has /\ powerUser.value.useAccordionFirstMessage

\* `after` is `before` with the one field of the one entry set to value.
OnlyField(before, after, tabId, field, value) ==
    after = [before EXCEPT
               !.tabConfig = [ i \in DOMAIN @ |->
                                 IF @[i].id # tabId THEN @[i]
                                 ELSE IF field = "visible"
                                 THEN [@[i] EXCEPT !.visible = value]
                                 ELSE [@[i] EXCEPT !.expanded = value] ]]

\* C26: the visibility button flips the visible flag of its section and
\* nothing else; the expanded checkbox sets the expanded flag of its
\* section and nothing else; the visibility button clicked twice in a row
\* leaves the section config as it was.
C26_OnlyThatFlag ==
    /\ panelEvent.op = "toggle" =>
          OnlyField(panelEvent.before, extensionSettings, panelEvent.id, "visible",
                    ~TabEntry(panelEvent.before.tabConfig, panelEvent.id).visible)
    /\ panelEvent.op = "expand" =>
          OnlyField(panelEvent.before, extensionSettings, panelEvent.id, "expanded",
                    panelEvent.checked)
    /\ (panelEvent.op = "toggle" /\ panelEvent.roundTrip) =>
          extensionSettings.tabConfig = panelEvent.origin

C26_Witness ==
    /\ panelEvent.op = "toggle" /\ panelEvent.roundTrip
    /\ panelEvent.id = "scenario"
    /\ ~TabEntry(panelEvent.before.tabConfig, "scenario").visible
    /\ TabEntry(extensionSettings.tabConfig, "scenario").visible
    /\ extensionSettings.tabConfig = panelEvent.origin

\* --------------------------------------------------------- markdown claims
MarkdownKinds == { "description", "firstMessage" }

\* C27: renderMarkdown gives back its input text as it is when the library
\* is not loaded and when marked.parse throws, and the library's output for
\* the text otherwise; it is defined for every text.  So is what the built
\* sections hold.
C27_MarkdownFallback ==
    /\ \A text \in Strings(MaxLen) :
          LET r == renderMarkdown(text)
          IN /\ r.text = text
             /\ r.markdown <=> (marked = "loaded" /\ text # << >>)
    /\ Built =>
          \A p \in DOMAIN body :
              body[p].content.html =>
                  /\ body[p].content.markdown <=> (marked = "loaded")
                  /\ body[p].content = renderMarkdown(body[p].content.text)

C27_Witness ==
    /\ Built
    /\ marked = "throwing"
    /\ \E p \in DOMAIN body :
          /\ body[p].kind = "description"
          /\ characterData.description.has
          /\ Trim(characterData.description.str) # << >>
          /\ body[p].content =
                 [html |-> TRUE, markdown |-> FALSE,
                  text |-> Trim(characterData.description.str)]

\* C28: the content of a section goes through renderMarkdown exactly for
\* the description section and for first-message sections, in swipe and in
\* accordion mode and after every arrow click; scenario, personality,
\* creator notes and example messages are set as textContent, with no
\* markdown and no HTML reading of the text.
C28_MarkdownKinds ==
    Built =>
        \A p \in DOMAIN body :
            /\ body[p].kind \in MarkdownKinds =>
                  /\ body[p].content.html
                  /\ body[p].content.markdown <=> (marked = "loaded")
            /\ body[p].kind \notin MarkdownKinds =>
                  /\ ~body[p].content.html
                  /\ ~body[p].content.markdown

C28_Witness ==
    /\ Built
    /\ marked = "loaded"
    /\ \E p, q, r \in DOMAIN body :
          /\ body[p].kind = "description" /\ body[p].content.markdown
          /\ body[q].kind = "firstMessage" /\ body[q].content.markdown
          /\ body[r].kind = "scenario" /\ ~body[r].content.html
    /\ \A k \in PlainKinds : \E p \in DOMAIN body : body[p].kind = k

\* ---------------------------------------------------------- swipe claims
\* C29: every newly built swipe section starts at its first greeting -
\* index 0, header `First Message (1/n)`, previous arrow disabled -
\* whatever greeting the section of the body built before had reached. A
\* body holds one swipe section at most, so an arrow click has no index but
\* its own section's to change.
C29_IndexPerModal ==
    /\ panelEvent.op = "build" =>
          \A p \in DOMAIN body :
              body[p].nav =>
                  /\ body[p].index = 0
                  /\ body[p].title =
                         Title("First Message", 1, Len(body[p].messages))
                  /\ body[p].content = renderMarkdown(body[p].messages[1])
                  /\ body[p].leftDisabled /\ ~body[p].rightDisabled
    /\ Cardinality({ p \in DOMAIN body : body[p].nav }) <= 1
    /\ panelEvent.op \in { "previous", "next" } =>
          \A p \in DOMAIN body : body[p].nav => p = panelEvent.pos

C29_Witness ==
    /\ panelEvent.op = "build"
    /\ panelEvent.priorIndex > 0
    /\ \E p \in DOMAIN body :
          /\ body[p].nav /\ body[p].index = 0
          /\ body[p].title = Title("First Message", 1, Len(body[p].messages))

\* C30: a click on the previous or next arrow leaves, in one step, the
\* index, the header and the shown greeting in agreement, and leaves the
\* section open or closed as it was; the click does not bubble further.
C30_ArrowKeepsOpenState ==
    /\ panelEvent.op \in { "previous", "next" } =>
          LET sec == body[panelEvent.pos]
              was == panelEvent.section
          IN /\ sec.open = was.open
             /\ sec.kind = was.kind /\ sec.messages = was.messages
             /\ sec.index \in { was.index - 1, was.index, was.index + 1 }
             /\ sec.title = Title("First Message", sec.index + 1, Len(sec.messages))
             /\ sec.content = renderMarkdown(sec.messages[sec.index + 1])
    /\ ~Bubbles("leftArrow") /\ ~Bubbles("rightArrow")

C30_Witness ==
    /\ panelEvent.op = "previous"
    /\ ~panelEvent.section.open
    /\ ~body[panelEvent.pos].open
    /\ body[panelEvent.pos].index = panelEvent.section.index - 1
    /\ body[panelEvent.pos].title # panelEvent.section.title
    /\ body[panelEvent.pos].content # panelEvent.section.content

\* ------------------------------------------------------ host drawer claims
DrawerMarkedOpen(s) ==
    /\ "openDrawer" \in s.drawerClasses /\ "closedDrawer" \notin s.drawerClasses
    /\ iconExists =>
          "openIcon" \in s.iconClasses /\ "closedIcon" \notin s.iconClasses

\* What closeBox does to the drawer from any controller state: with the
\* flag true and the drawer marked closed it marks drawer and icon open,
\* and with the flag not true it leaves both class lists alone; openBox
\* sets the flag true exactly when the drawer is marked open at that time.
DrawerRestored ==
    /\ ( Truthy(drawerWasOpen) /\ drawerExists /\ "closedDrawer" \in drawerClasses )
          => DrawerMarkedOpen(closeBox(Ctrl))
    /\ ~Truthy(drawerWasOpen) =>
          /\ closeBox(Ctrl).drawerClasses = drawerClasses
          /\ closeBox(Ctrl).iconClasses = iconClasses
    /\ \A b \in bodyChildren \cup { NoBox } :
          Truthy(openBox(Ctrl, b, 0).drawerWasOpen) <=>
              ( drawerExists /\ "openDrawer" \in closeBox(Ctrl).drawerClasses )
    /\ lastEvent.restored => DrawerMarkedOpen(Ctrl)

\* C31 as stated: closeBox restores the drawer as above, and in every
\* Closed state drawerWasOpen is false.
C31_DrawerFlagFalse ==
    /\ DrawerRestored
    /\ Closed(Ctrl) => drawerWasOpen = "false"

\* C31: closeBox marks the drawer and its icon open, and no longer closed,
\* when the drawer was marked open as the modal opened and is marked closed
\* now; it leaves the markers alone when the drawer was not marked open
\* then; in every Closed state drawerWasOpen is not true - false, or null
\* where the page has no drawer element.
C31_DrawerFlagClear ==
    /\ DrawerRestored
    /\ Closed(Ctrl) => ~Truthy(drawerWasOpen)
    /\ ( Closed(Ctrl) /\ drawerExists ) => drawerWasOpen = "false"

C31_Witness ==
    /\ lastEvent.op \in Dismissals
    /\ lastEvent.prevBox # 0
    /\ lastEvent.restored
    /\ Closed(Ctrl)
    /\ DrawerMarkedOpen(Ctrl)
    /\ drawerWasOpen = "false"

\* -------------------------------------------------------- default layout
\* Nothing persisted and no listener of the panel has run yet.
FirstStart == ~powerUser.has /\ panelEvent.step = 0

AllKinds == { TabIds[i] : i \in DOMAIN TabIds }

\* C32: with the default settings - at first start with nothing persisted,
\* and after a reset - the modal is built with the Description section
\* open and First Message, Scenario, Personality, Creator Notes and Example
\* Messages closed.
C32_DefaultLayout ==
    /\ ( FirstStart \/ panelEvent.op = "reset" ) => extensionSettings = DefaultSettings
    /\ ( panelEvent.op = "build" /\ extensionSettings = DefaultSettings ) =>
          /\ { body[p].kind : p \in DOMAIN body } = AllKinds
          /\ \A p \in DOMAIN body : body[p].open <=> body[p].kind = "description"

C32_Witness ==
    /\ panelEvent.op = "build"
    /\ panelEvent.prev = "reset"
    /\ extensionSettings = DefaultSettings
    /\ \E p, q \in DOMAIN body :
          /\ body[p].kind = "description" /\ body[p].open
          /\ body[q].kind = "firstMessage" /\ ~body[q].open
    /\ Len(body) = 6

\* ---------------------------------------------------------- startup claim
\* C33: a library that fails to load does not end init(): once the load
\* has settled, either way, the APP_READY handler is registered, and once
\* the host has delivered APP_READY to it the click listener is on the list
\* container (where the page has one); with the library missing, the
\* description and first-message sections of a built modal hold the text
\* of the record as it is.
C33_LoadFailureNotFatal ==
    /\ startup.phase # "loading" =>
          /\ startup.registered
          /\ startup.phase \in { "waiting", "done" }
    /\ startup.delivered => ( startup.listening <=> startup.container )
    /\ startup.listening => ( startup.registered /\ startup.ready )
    /\ ( panelEvent.op = "build" /\ marked = "null" ) =>
          /\ \A p \in DOMAIN body :
                body[p].kind \in MarkdownKinds => ~body[p].content.markdown
          /\ HasContent(characterData, "description") =>
                \E p \in DOMAIN body :
                    /\ body[p].kind = "description"
                    /\ body[p].content.text = Trim(TabContent(characterData, "description"))
          /\ ShownGreetings = GreetingSet(characterData)

C33_Witness ==
    /\ marked = "null"
    /\ startup.phase = "done"
    /\ startup.listening
    /\ panelEvent.op = "build"
    /\ characterData = AriaRecord
    /\ \E p \in DOMAIN body :
          /\ body[p].kind = "firstMessage"
          /\ body[p].content = [html |-> TRUE, markdown |-> FALSE,
                                text |-> << "H", "e", "l", "l", "o", "!" >>]

\* ------------------------------------------------- click pipeline claims
\* The last list click was one the listener takes for itself: the list is
\* not in bulk selection, a card with an identifier was hit, SHIFT was up.
Consumable ==
    /\ ~bulkSelect /\ lastEvent.card /\ lastEvent.hasId /\ ~lastEvent.shift

\* Every fetch that has settled led to one openBox call or one alert(),
\* and a pending one to neither yet; a list click issues one fetch exactly
\* when it qualifies, whatever other fetches are pending.
OneOutcomePerClick ==
    /\ \A k \in DOMAIN fetches :
          /\ ~fetches[k].settled => ( fetches[k].opens = 0 /\ fetches[k].alerts = 0 )
          /\ fetches[k].settled => fetches[k].opens + fetches[k].alerts = 1
    /\ lastEvent.op = "listClick" =>
          ( lastEvent.fetched <=> ( Consumable /\ ~lastEvent.logged ) )
    /\ ( lastEvent.op = "fetchSettle" /\ fetches[lastEvent.k].opens = 1 ) =>
          currentBox.click = lastEvent.k

\* C34 as stated: one fetch per qualifying click, one outcome per settled
\* fetch, and that outcome is an openBox call when the fetch succeeded and
\* an alert when it was rejected.
C34_OpenOnFetchSuccess ==
    /\ OneOutcomePerClick
    /\ lastEvent.op = "fetchSettle" =>
          /\ lastEvent.result = "rejected" => fetches[lastEvent.k].alerts = 1
          /\ lastEvent.result # "rejected" => fetches[lastEvent.k].opens = 1

\* C34: each qualifying click issues one fetch of its own, whatever else
\* is pending; once that fetch settles the click has exactly one outcome:
\* one openBox call when the fetch succeeded and createCharacterBox built
\* the modal, one alert when the fetch was rejected or createCharacterBox
\* threw on the record. No settled click is left without an outcome.
C34_OneOutcome ==
    /\ OneOutcomePerClick
    /\ lastEvent.op = "fetchSettle" =>
          /\ lastEvent.result = "ok" =>
                ( fetches[lastEvent.k].opens = 1 /\ fetches[lastEvent.k].alerts = 0 )
          /\ lastEvent.result \in { "rejected", "malformed" } =>
                ( fetches[lastEvent.k].opens = 0 /\ fetches[lastEvent.k].alerts = 1 )

C34_Witness ==
    /\ lastEvent.op = "fetchSettle"
    /\ lastEvent.k = 1
    /\ lastEvent.result = "ok"
    /\ Len(fetches) = 2
    /\ ~fetches[2].settled
    /\ fetches[1].opens = 1
    /\ currentBox.click = 1

\* C35: the listener calls preventDefault and stopPropagation on a list
\* click exactly when the list is not in bulk selection, the click hits a
\* card with an identifier, and SHIFT is not held; otherwise it leaves the
\* event untouched and starts nothing.
C35_ConsumedIffQualifying ==
    lastEvent.op = "listClick" =>
        /\ lastEvent.prevented <=> Consumable
        /\ lastEvent.stopped <=> Consumable
        /\ ~Consumable => ( ~lastEvent.fetched /\ ~lastEvent.logged /\ ~lastEvent.changed )

C35_Witness ==
    /\ lastEvent.op = "listClick"
    /\ Consumable
    /\ lastEvent.prevented /\ lastEvent.stopped
    /\ lastEvent.logged
    /\ ~lastEvent.fetched

\* C36: under every interleaving of clicks and fetch completions, an
\* attached modal shows the record of the click it was built for and its
\* Start Chat listener holds that click's identifier; every call of the
\* host start action passes the identifier of the click whose modal was
\* the live one.
C36_StartsDisplayedCharacter ==
    /\ \A b \in bodyChildren :
          /\ b.click \in DOMAIN fetches
          /\ b.chid = fetches[b.click].chid
          /\ b.rec = fetches[b.click].avatar
          /\ b.rec = CharacterAt(b.chid)
    /\ \A i \in DOMAIN starts :
          /\ starts[i].from \in DOMAIN fetches
          /\ starts[i].arg = ToString(fetches[starts[i].from].chid)
    /\ lastEvent.op = "startChat" => lastEvent.prevBox = lastEvent.k

C36_Witness ==
    /\ lastEvent.op = "startChat"
    /\ lastEvent.k = 1
    /\ Len(fetches) = 2
    /\ fetches[1].chid # fetches[2].chid
    /\ fetches[1].opens = 1 /\ fetches[2].opens = 1
    /\ starts[Len(starts)].from = 1
    /\ starts[Len(starts)].arg = ToString(fetches[1].chid)

\* C37: a pending fetch is never cancelled.  In every state - a modal
\* open, just dismissed, just used for Start Chat, or none ever opened -
\* the successful completion of any pending fetch opens a modal for its
\* click, and a completion that has happened did so.
C37_PendingOpenSurvives ==
    /\ \A k \in DOMAIN fetches :
          ~fetches[k].settled =>
              LET r == onFetchSettled(Ctrl, fetches[k], k, "okWrapped")
              IN /\ r.opened
                 /\ r.ctrl.currentBox.click = k
                 /\ r.ctrl.currentBox \in r.ctrl.bodyChildren
    /\ ( lastEvent.op = "fetchSettle" /\ lastEvent.result = "ok" ) =>
          /\ currentBox.click = lastEvent.k
          /\ currentBox \in bodyChildren
          /\ escapeKeyHandler \in keydownListeners

C37_Witness ==
    /\ lastEvent.op = "fetchSettle"
    /\ lastEvent.result = "ok"
    /\ lastEvent.k = 1
    /\ lastEvent.prevBox = 0
    /\ Len(fetches) = 2
    /\ fetches[2].opens = 1
    /\ starts # << >>
    /\ currentBox.click = 1

\* C38: a fetch that is rejected, or a record createCharacterBox throws
\* on, leaves the controller as it was: a modal open for another click is
\* still held and attached with its Escape closure registered, and
\* drawerWasOpen and the drawer classes are what they were.
C38_FailureLeavesController ==
    ( lastEvent.op = "fetchSettle" /\ lastEvent.result \in { "rejected", "malformed" } ) =>
        /\ ~lastEvent.changed
        /\ ~lastEvent.restored
        /\ currentBox.click = lastEvent.prevBox
        /\ lastEvent.prevBox # 0 =>
              /\ lastEvent.prevBox # lastEvent.k
              /\ currentBox \in bodyChildren
              /\ escapeKeyHandler = currentBox.click
              /\ escapeKeyHandler \in keydownListeners

C38_Witness ==
    /\ lastEvent.op = "fetchSettle"
    /\ lastEvent.result = "malformed"
    /\ lastEvent.prevBox # 0
    /\ lastEvent.prevBox # lastEvent.k
    /\ currentBox \in bodyChildren
    /\ escapeKeyHandler \in keydownListeners
    /\ drawerWasOpen = "true"
    /\ "closedDrawer" \in drawerClasses

\* ------------------------------------------------------ order value claim
OrderValues(tabConfig) == { tabConfig[i].order : i \in DOMAIN tabConfig }

\* Two tabConfigs list the same ids at the same keys and hold every order
\* value the same number of times.
SameOrderBag(before, after) ==
    /\ DOMAIN after = DOMAIN before
    /\ \A i \in DOMAIN before : after[i].id = before[i].id
    /\ \A v \in OrderValues(before) \cup OrderValues(after) :
          Cardinality({ i \in DOMAIN before : before[i].order = v })
              = Cardinality({ i \in DOMAIN after : after[i].order = v })

\* C39: from the default settings, and from any reset on, every sequence
\* of moves, visibility clicks, expanded changes and resets leaves the six
\* order values the numbers 0..5, each once; from any tabConfig,
\* swapTabOrder keeps how often each order value occurs and keeps the ids.
C39_OrdersArePermutation ==
    /\ panelEvent.fromDefaults =>
          /\ Len(extensionSettings.tabConfig) = 6
          /\ OrderValues(extensionSettings.tabConfig) = 0..5
    /\ \A i \in DOMAIN extensionSettings.tabConfig, direction \in { Up, Down } :
          SameOrderBag(extensionSettings.tabConfig,
                       swapTabOrder(extensionSettings.tabConfig,
                                    extensionSettings.tabConfig[i].id,
                                    direction).tabConfig)
    /\ panelEvent.op = "swap" =>
          SameOrderBag(panelEvent.config, extensionSettings.tabConfig)

C39_Witness ==
    /\ panelEvent.fromDefaults
    /\ panelEvent.op = "swap"
    /\ panelEvent.prev = "swap"
    /\ ~panelEvent.roundTrip
    /\ extensionSettings.tabConfig # panelEvent.config
    /\ panelEvent.config # defaultTabConfig
    /\ OrderValues(extensionSettings.tabConfig) = 0..5
====
